---- MODULE Spec2Model ----
(***************************************************************************)
(* Hand engine of the poker rooms service: the start-hand and actions      *)
(* request handlers of apps/engine/src/index.ts over the durable tables    *)
(* (rooms, room_players, game_states, game_state_secrets, player_hands,    *)
(* player_actions, hand_results), together with the engine functions they  *)
(* call (dealHand, applyAction, determineDoubleBoardWinners,               *)
(* endOfHandPayout).  The handlers are translated from index.ts; the       *)
(* engine functions live in logic.ts, which is not part of the sources at  *)
(* hand, and are modelled from the design document (sections 4.1 - 4.5).   *)
(***************************************************************************)
EXTENDS Integers, Sequences, FiniteSets, TLC

VARIABLES
    rooms,               \* the room row (blinds, button_seat, current_hand_number, flags)
    room_players,        \* room_players table: player id -> row
    game_states,         \* game_states table: game state id -> row
    game_state_secrets,  \* game_state_secrets table: game state id -> row
    player_hands,        \* player_hands table: game state id -> (seat -> hole cards)
    player_actions,      \* player_actions rows inserted by the most recent request
    hand_results,        \* hand_results table: sequence of rows
    response,            \* the most recent HTTP response
    evaluated,           \* what the showdown evaluation returned to the most recent
                         \* request: <<>> when it was not run, else <<result>>
    body,                \* the JSON body of the most recent HTTP response
    inflight,            \* requests being handled one store call at a time:
                         \* slot -> handler position and local variables
    failures,            \* store calls that have failed so far
    received,            \* action requests received by the stepwise handlers
    keyed,               \* requests submitted with an idempotency key:
                         \* key -> payload, first response, times applied
    hook,                \* the visible-cards hook of one mounted table view:
                         \* its parameters and the state it exposes
    sequence             \* the last id the store has given a game_states row

vars == <<rooms, room_players, game_states, game_state_secrets, player_hands,
          player_actions, hand_results, response, evaluated, body, inflight,
          failures, received, keyed, hook, sequence>>

----------------------------------------------------------------------------
(* Bounds of the model *)

\* the room's buy-in range
MinBuyIn == 3
MaxBuyIn == 5
\* most chips the seated players bring to the table together
MaxTableChips == 11
\* number of hands that may be dealt in one behaviour
MaxHands == 1
\* store calls that fail in one behaviour
MaxFailures == 1

\* seat numbers in use (the UI sends zero-based seats)
SeatNumbers == {0, 1, 2}
\* seats a request may name: any integer passes the schema, 7 is a seat
\* nobody sits at
RequestSeats == SeatNumbers \cup {7}
\* the tables that can be seated
Tables == {{0, 1}, {0, 1, 2}}
BuyIns == MinBuyIn..MaxBuyIn
\* an absent amount; a present amount is a positive integer
NoAmount == 0
\* amounts a request may carry: bet and raise read the amount, the other
\* action types ignore it
Amounts(actionType) ==
    IF actionType \in {"bet", "raise"} THEN 0..MaxBuyIn ELSE {NoAmount}
\* deck seeds a start-hand request may supply
DeckSeeds == {1}

----------------------------------------------------------------------------
(* Generic helpers *)

Range(seq) == {seq[i] : i \in DOMAIN seq}

Max(S) == CHOOSE x \in S : \A y \in S : y <= x
Min(S) == CHOOSE x \in S : \A y \in S : x <= y

RECURSIVE SumOver(_, _)
SumOver(f, S) ==
    IF S = {} THEN 0
    ELSE LET x == CHOOSE y \in S : TRUE IN f[x] + SumOver(f, S \ {x})

RECURSIVE SeqSumAmount(_)
SeqSumAmount(seq) ==
    IF seq = <<>> THEN 0 ELSE Head(seq).amount + SeqSumAmount(Tail(seq))

\* the elements of a set of integers in ascending order
RECURSIVE Ascending(_)
Ascending(S) ==
    IF S = {} THEN <<>>
    ELSE LET m == Min(S) IN <<m>> \o Ascending(S \ {m})

----------------------------------------------------------------------------
(* Rows *)

ActionTypes == {"fold", "check", "call", "bet", "raise", "all_in"}

PlayerId(seat) == 10 + seat

NewPlayer(seat, buyIn) ==
    [id |-> PlayerId(seat), seat_number |-> seat, chip_stack |-> buyIn,
     total_buy_in |-> buyIn, has_folded |-> FALSE, is_all_in |-> FALSE,
     current_bet |-> 0]

NewRoom ==
    [small_blind |-> 1, big_blind |-> 2, min_buy_in |-> MinBuyIn,
     max_buy_in |-> MaxBuyIn, is_active |-> TRUE, is_paused |-> FALSE,
     button_seat |-> -1, current_hand_number |-> 0]

NoResponse == [status |-> 0, error |-> ""]
NoBody == [none |-> TRUE]

\* requests that can be in the handlers at the same time
Slots == {1, 2}
\* a slot with no request in it
Idle == [kind |-> "idle"]

\* the orders in which the rows ids of players can be returned by a select
\* ordered by seat_number: ascending seat numbers, rows that share a seat
\* number in whichever order the store returns them
RECURSIVE InSeatOrder(_, _)
InSeatOrder(players, ids) ==
    IF ids = {} THEN {<<>>}
    ELSE LET lowest == {i \in ids : \A j \in ids :
                           players[i].seat_number <= players[j].seat_number}
         IN UNION {{<<players[i]>> \o rest :
                       rest \in InSeatOrder(players, ids \ {i})} : i \in lowest}

\* select * from room_players where room_id = roomId order by seat_number:
\* every row of the room; the set of lists the select can return, one list
\* unless two rows share a seat number
fetchPlayers(players) == InSeatOrder(players, DOMAIN players)

\* the list fetchPlayers returns when no two rows share a seat number
PlayersBySeatNumber == CHOOSE players \in fetchPlayers(room_players) : TRUE

\* no room row
NoRoom == [none |-> TRUE]

\* order by hand_number descending, limit 1: the rows the query may return,
\* any of the rows with the largest hand_number, or none
NoGameState == [id |-> -1]
fetchLatestGameState(states) ==
    IF DOMAIN states = {} THEN {NoGameState}
    ELSE LET top == Max({states[i].hand_number : i \in DOMAIN states})
         IN {states[i] : i \in {j \in DOMAIN states : states[j].hand_number = top}}

NoSecret == [game_state_id |-> -1]
\* variant: a lookup that makes up a secret with empty boards when none is stored
fetchGameStateSecretOrEmpty(secrets, id) ==
    IF id \in DOMAIN secrets THEN secrets[id]
    ELSE [game_state_id |-> id, deck_seed |-> 0,
          full_board1 |-> <<>>, full_board2 |-> <<>>]

\* the secret of game state id, or none
fetchGameStateSecret(secrets, id) ==
    IF id \in DOMAIN secrets THEN secrets[id] ELSE NoSecret

\* {...row, ...update}: the fields of update override those of row
Merge(row, update) ==
    [f \in DOMAIN row \cup DOMAIN update |->
        IF f \in DOMAIN update THEN update[f] ELSE row[f]]

\* table.upsert(rows): each row is written over the row of its id, column by
\* column, or inserted when the id is new
RECURSIVE upsert(_, _)
upsert(table, rows) ==
    IF rows = <<>> THEN table
    ELSE LET r == Head(rows)
             written == [i \in DOMAIN table \cup {r.id} |->
                          IF i # r.id THEN table[i]
                          ELSE IF i \in DOMAIN table THEN Merge(table[i], r) ELSE r]
         IN upsert(written, Tail(rows))

----------------------------------------------------------------------------
(* Seats around the table *)

Seated(players) == {players[i].seat_number : i \in DOMAIN players}

BySeat(players) ==
    [s \in Seated(players) |->
        CHOOSE p \in Range(players) : p.seat_number = s]

\* the first seat of S met going clockwise (ascending, wrapping) from `from`,
\* `from` itself coming last
NextSeatIn(S, from) ==
    IF \E s \in S : s > from THEN Min({s \in S : s > from}) ELSE Min(S)

----------------------------------------------------------------------------
(* Deck & Deal Service: dealHand (design document 4.1)                     *)
(*                                                                         *)
(* Cards are tokens: the seed fixes which token every seat and every     *)
(* board position receives.  A seat holds four hole cards (double-board    *)
(* PLO), a full board has five cards.                                      *)

HoleCards(deckSeed, seat) ==
    [i \in 1..4 |-> deckSeed * 1000 + (seat + 1) * 10 + i]
FullBoard(deckSeed, board) ==
    [i \in 1..5 |-> deckSeed * 1000 + board * 100 + i]

\* number of community cards revealed on a street
Revealed(phase) ==
    CASE phase = "preflop" -> 0
      [] phase = "flop" -> 3
      [] phase = "turn" -> 4
      [] OTHER -> 5

NextPhase(phase) ==
    CASE phase = "preflop" -> "flop"
      [] phase = "flop" -> "turn"
      [] phase = "turn" -> "river"
      [] OTHER -> "showdown"

\* variant: the whole of both boards, whatever the street
BoardStateFull(phase, fullBoard1, fullBoard2) ==
    [board1 |-> fullBoard1, board2 |-> fullBoard2]

BoardState(phase, fullBoard1, fullBoard2) ==
    [board1 |-> SubSeq(fullBoard1, 1, Revealed(phase)),
     board2 |-> SubSeq(fullBoard2, 1, Revealed(phase))]

\* seats that can still act: not folded, not all-in
Eligible(bySeat) ==
    {s \in DOMAIN bySeat : ~bySeat[s].has_folded /\ ~bySeat[s].is_all_in}

NonFolded(bySeat) == {s \in DOMAIN bySeat : ~bySeat[s].has_folded}

\* seats that have to act before the street can close: every seat facing a
\* bet, and every eligible seat when at least two of them can act
SeatsToAct(bySeat, currentBet) ==
    LET el == Eligible(bySeat)
    IN {s \in el : bySeat[s].current_bet < currentBet \/ Cardinality(el) >= 2}

\* a forced bet debited in full, whatever the seat has left
PostedBlindUncapped(forcedBet, stack) == forcedBet

\* chips a seat posts for a forced bet: the bet, or the whole stack when the
\* stack is shorter
PostedBlind(forcedBet, stack) ==
    IF forcedBet <= stack THEN forcedBet ELSE stack

dealHand(room, players, deckSeed) ==
    LET bySeat == BySeat(players)
        seats == DOMAIN bySeat
        button == NextSeatIn(seats, room.button_seat)
        sbSeat == NextSeatIn(seats, button)
        bbSeat == NextSeatIn(seats, sbSeat)
        forced(s) == IF s = bbSeat THEN room.big_blind
                     ELSE IF s = sbSeat THEN room.small_blind ELSE 0
        posted(s) == PostedBlind(forced(s), bySeat[s].chip_stack)
        dealt == [s \in seats |->
                    [bySeat[s] EXCEPT !.chip_stack = @ - posted(s),
                                      !.current_bet = posted(s),
                                      !.has_folded = FALSE,
                                      !.is_all_in = (bySeat[s].chip_stack - posted(s) = 0)]]
        order == Ascending(seats)
        \* before the flop every seat that can act has to act: the seats
        \* facing the big blind, and the big blind itself
        toAct == Eligible(dealt)
        handNumber == room.current_hand_number + 1
    IN [gameState |->
            [id |-> handNumber,
             hand_number |-> handNumber,
             button_seat |-> button,
             phase |-> "preflop",
             pot_size |-> SumOver([s \in seats |-> posted(s)], seats),
             current_bet |-> room.big_blind,
             min_raise |-> room.big_blind,
             \* the seat in turn is the next non-folded, non-all-in seat
             \* clockwise from the big blind (design document 4.2)
             current_actor_seat |-> IF toAct = {} THEN -1 ELSE NextSeatIn(toAct, bbSeat),
             seats_to_act |-> toAct,
             seats_closed |-> {},
             contributions |-> [s \in seats |-> posted(s)],
             action_history |-> <<>>,
             board_state |-> BoardState("preflop", FullBoard(deckSeed, 1), FullBoard(deckSeed, 2))],
        playerHands |-> [k \in 1..Len(order) |->
                            [seat_number |-> order[k],
                             cards |-> HoleCards(deckSeed, order[k])]],
        updatedPlayers |-> [k \in 1..Len(order) |-> dealt[order[k]]],
        deckSeed |-> deckSeed,
        fullBoard1 |-> FullBoard(deckSeed, 1),
        fullBoard2 |-> FullBoard(deckSeed, 2)]

----------------------------------------------------------------------------
(* Action Processor: applyAction (design document 4.2, 4.3)                *)
(*                                                                         *)
(* The amount of a bet or raise is the number of chips the seat adds now.  *)
(* seats_to_act holds the seats that still have to respond on the street,  *)
(* seats_closed the seats that have acted since the last full raise and    *)
(* so may not raise again until another full raise reopens the action.     *)

NoError == ""

\* every seat may raise whenever it is in turn
AlwaysMayRaise(gs, seat) == TRUE

\* a seat that has acted since the last full raise may not raise again
MayRaise(gs, seat) == seat \notin gs.seats_closed

\* a wager above the bet-to-call by at least the minimum raise reopens the action
IsFullRaise(gs, wager) == wager - gs.current_bet >= gs.min_raise
\* the value of an outcome field that is not set
Undefined == <<-1>>

Rejected(err) ==
    [error |-> err, updatedGameState |-> <<>>, updatedPlayers |-> <<>>,
     handCompleted |-> FALSE, autoWinners |-> Undefined, potAwarded |-> 0]

\* OutOfTurn / IllegalAction, or NoError when the action is legal
ActionError(room, gs, bySeat, seat, actionType, amount) ==
    IF seat \notin DOMAIN bySeat \/ seat # gs.current_actor_seat THEN "OutOfTurn"
    ELSE LET p == bySeat[seat]
             gap == gs.current_bet - p.current_bet
             closed == ~MayRaise(gs, seat)
             legal ==
                CASE actionType = "fold" -> TRUE
                  [] actionType = "check" -> gap = 0
                  [] actionType = "call" -> gap > 0
                  [] actionType = "bet" ->
                        /\ gs.current_bet = 0 /\ ~closed
                        /\ amount # NoAmount /\ amount >= room.big_blind
                        /\ amount <= p.chip_stack
                  [] actionType = "raise" ->
                        /\ gs.current_bet > 0 /\ ~closed
                        /\ amount # NoAmount /\ amount <= p.chip_stack
                        /\ p.current_bet + amount - gs.current_bet >= gs.min_raise
                  [] actionType = "all_in" -> ~(closed /\ p.chip_stack > gap)
                  [] OTHER -> FALSE
         IN IF legal THEN NoError ELSE "IllegalAction"

\* chips the seat moves from its stack to its wager and the pot
\* a call that always moves the whole gap
ChipsAddedUncapped(gs, p, actionType, amount) ==
    CASE actionType = "call" -> gs.current_bet - p.current_bet
      [] actionType \in {"bet", "raise"} -> amount
      [] actionType = "all_in" -> p.chip_stack
      [] OTHER -> 0

ChipsAdded(gs, p, actionType, amount) ==
    CASE actionType = "call" ->
            IF gs.current_bet - p.current_bet <= p.chip_stack
            THEN gs.current_bet - p.current_bet ELSE p.chip_stack
      [] actionType \in {"bet", "raise"} -> amount
      [] actionType = "all_in" -> p.chip_stack
      [] OTHER -> 0

\* the player rows with every street wager back at zero, in seat order
ResetBets(bySeat) ==
    LET order == Ascending(DOMAIN bySeat)
    IN [k \in 1..Len(order) |-> [bySeat[order[k]] EXCEPT !.current_bet = 0]]

applyAction(ctx, seat, actionType, amount) ==
    LET room == ctx.room
        gs == ctx.gameState
        bySeat == BySeat(ctx.players)
        err == ActionError(room, gs, bySeat, seat, actionType, amount)
    IN IF err # NoError THEN Rejected(err)
       ELSE
       LET p == bySeat[seat]
           add == ChipsAdded(gs, p, actionType, amount)
           np == [p EXCEPT !.chip_stack = @ - add,
                           !.current_bet = @ + add,
                           !.has_folded = (actionType = "fold"),
                           !.is_all_in = (add > 0 /\ p.chip_stack - add = 0)]
           after == [bySeat EXCEPT ![seat] = np]
           raised == np.current_bet > gs.current_bet
           increment == np.current_bet - gs.current_bet
           fullRaise == raised /\ IsFullRaise(gs, np.current_bet)
           currentBet == IF raised THEN np.current_bet ELSE gs.current_bet
           pot == gs.pot_size + add
           history == Append(gs.action_history,
                             [seat_number |-> seat, action_type |-> actionType,
                              amount |-> add, phase |-> gs.phase])
           contributions == [gs.contributions EXCEPT ![seat] = @ + add]
           eligible == Eligible(after)
           toAct == IF raised THEN eligible \ {seat}
                    ELSE (gs.seats_to_act \ {seat}) \cap eligible
           closed == IF fullRaise THEN {seat} ELSE gs.seats_closed \cup {seat}
           remaining == NonFolded(after)
           foldedOut == Cardinality(remaining) = 1
           streetClosed == ~foldedOut /\ toAct = {}
           \* nobody is left to bet against: the remaining streets run out
           runOut == Cardinality(eligible) < 2
           showdown == streetClosed /\ (gs.phase = "river" \/ runOut)
           advanced == streetClosed /\ ~showdown
           phase == IF foldedOut THEN "complete"
                    ELSE IF showdown THEN "showdown"
                    ELSE IF advanced THEN NextPhase(gs.phase) ELSE gs.phase
           reset == [s \in DOMAIN after |-> [after[s] EXCEPT !.current_bet = 0]]
       IN [error |-> NoError,
           updatedGameState |->
              [phase |-> phase,
               pot_size |-> pot,
               current_bet |-> IF streetClosed THEN 0 ELSE currentBet,
               min_raise |-> IF streetClosed THEN room.big_blind
                             ELSE IF fullRaise THEN increment ELSE gs.min_raise,
               current_actor_seat |->
                   IF foldedOut \/ showdown THEN -1
                   ELSE NextSeatIn(eligible, seat),
               seats_to_act |-> IF advanced THEN SeatsToAct(reset, 0)
                                ELSE IF streetClosed THEN {} ELSE toAct,
               seats_closed |-> IF streetClosed THEN {} ELSE closed,
               contributions |-> contributions,
               action_history |-> history,
               board_state |-> IF foldedOut THEN gs.board_state
                               ELSE BoardState(phase, ctx.fullBoard1, ctx.fullBoard2)],
           updatedPlayers |-> IF streetClosed THEN <<np>> \o ResetBets(after)
                              ELSE <<np>>,
           handCompleted |-> foldedOut \/ showdown,
           autoWinners |-> IF foldedOut \/ showdown THEN Ascending(remaining)
                           ELSE Undefined,
           potAwarded |-> IF foldedOut \/ showdown THEN pot ELSE 0]

----------------------------------------------------------------------------
(* Hand Evaluator and Payout Calculator (design document 4.4, 4.5)         *)

\* The ranking of cards is not modelled: on each board any non-empty group
\* of the hands shown may tie for best.  The results the evaluation can
\* return for these hands: per board, the winning seats in the order of the
\* hands.
determineDoubleBoardWinners(activeHands, board1, board2) ==
    LET seatsOf(I) == SelectSeq([i \in DOMAIN activeHands |-> activeHands[i].seatNumber],
                                LAMBDA s : \E i \in I : activeHands[i].seatNumber = s)
        groups == IF activeHands = <<>> THEN {{}}
                  ELSE (SUBSET DOMAIN activeHands) \ {{}}
    IN {[board1Winners |-> seatsOf(I1), board2Winners |-> seatsOf(I2)] :
            I1 \in groups, I2 \in groups}

\* one board's share split among its winners: the floor share each, odd chips
\* one each from the front of the winner list
SplitShare(winners, share) ==
    LET n == Len(winners)
    IN [k \in 1..n |->
          [seat |-> winners[k],
           amount |-> (share \div n) + (IF k <= share % n THEN 1 ELSE 0)]]

\* the pot split 50/50 between the boards (board 1 takes the odd chip), each
\* half split among that board's winners; one entry per credited seat
endOfHandPayout(board1Winners, board2Winners, potAwarded) ==
    LET half2 == IF board2Winners = <<>> THEN 0
                 ELSE IF board1Winners = <<>> THEN potAwarded
                 ELSE potAwarded \div 2
        half1 == IF board1Winners = <<>> THEN 0 ELSE potAwarded - half2
        parts == SplitShare(board1Winners, half1) \o SplitShare(board2Winners, half2)
        seats == Ascending({parts[i].seat : i \in DOMAIN parts})
    IN [k \in 1..Len(seats) |->
          [seat |-> seats[k],
           amount |-> SeqSumAmount(SelectSeq(parts, LAMBDA e : e.seat = seats[k]))]]

----------------------------------------------------------------------------
(* Requests in the handlers.  A handler is an async function: it runs up   *)
(* to its next await, the store call it awaits is carried out, and it      *)
(* resumes later, with the requests of other clients running in between.   *)
(* Every store call of a handler is therefore a step of its own.  A        *)
(* request being handled sits in a slot of inflight, which holds the       *)
(* handler's position (pc names the store call to come) and its local      *)
(* variables.  What a request carries in its body is drawn in the step     *)
(* that first uses it.                                                     *)

\* err.message of a failed store call
StoreError == "store error"

\* a new request goes into the lowest idle slot
FreeSlot(r) ==
    /\ inflight[r].kind = "idle"
    /\ \A q \in Slots : q < r => inflight[q].kind # "idle"

\* the next store call of the request in slot r
At(r, kind, pc) == inflight[r].kind = kind /\ inflight[r].pc = pc

\* res.status(status).json(json): the request leaves its slot
Respond(r, status, error, json) ==
    /\ response' = [status |-> status, error |-> error]
    /\ body' = json
    /\ inflight' = [inflight EXCEPT ![r] = Idle]

\* the store call succeeded; the handler moves on to pc
Continue(r, pc, call) ==
    /\ inflight' = [inflight EXCEPT ![r].pc = pc,
                                    ![r].committed = Append(@, call)]
    /\ UNCHANGED <<response, body>>

\* the store call returns an error
StoreFails ==
    /\ failures < MaxFailures
    /\ failures' = failures + 1

----------------------------------------------------------------------------
(* POST /rooms/:roomId/start-hand, lines 157-234 *)

\* players.length < 2 taken as players.length < 1
AnyPlayers(players) == Len(players) >= 1

\* the negation of players.length < 2
EnoughPlayers(players) == Len(players) >= 2

\* the secret row written without the seed of the deal
SecretRowSeedless(id, d) ==
    [game_state_id |-> id, deck_seed |-> 0,
     full_board1 |-> d.fullBoard1, full_board2 |-> d.fullBoard2]

\* the game_state_secrets row of a deal: deck_seed is the seed dealHand used
SecretRow(id, d) ==
    [game_state_id |-> id, deck_seed |-> d.deckSeed,
     full_board1 |-> d.fullBoard1, full_board2 |-> d.fullBoard2]

\* deckSeed is optional in the request body
NoSeed == 0
\* seeds dealHand may generate
LobbySeeds == {1, 2}

\* dealHand uses the seed of the request, or generates one when it has none
UsedSeeds(supplied) == IF supplied = NoSeed THEN LobbySeeds ELSE {supplied}

\* table.insert(row) under the id of the row
InsertRow(table, id, row) ==
    [i \in DOMAIN table \cup {id} |-> IF i = id THEN row ELSE table[i]]

\* table.delete().eq("id", id), and the delete that cascades to the rows
\* referencing id
DeleteById(table, id) == [i \in DOMAIN table \ {id} |-> table[i]]

\* the local variables of start-hand once the room has been read
DealRequest(room, web) ==
    [kind |-> "deal", pc |-> "fetchPlayers", room |-> room, web |-> web,
     deckSeed |-> NoSeed, players |-> <<>>, deal |-> <<>>, committed |-> <<>>]

\* the handler of start-hand rejects outside its try (159-176): no response
\* is sent, no further store call is made, and the request is over
Abandon(r) ==
    /\ inflight' = [inflight EXCEPT ![r] = Idle]
    /\ UNCHANGED <<response, body>>

\* startHandSchema.parse (159) throws for a body whose deckSeed is not a
\* string, before the first store call and outside the try: the request is
\* over with nothing read, nothing written and no response
RejectStartHandBody(r) ==
    /\ FreeSlot(r)
    /\ UNCHANGED vars

\* fetchRoom (161), then the 404 and the 400 of a room that is closed or
\* paused.  The handler does not look for a hand in progress.  fetchRoom
\* throws when the select returns an error (429), here outside the try.
ReceiveStartHand(r) ==
    /\ FreeSlot(r)
    /\ \/ /\ IF rooms = NoRoom
             THEN Respond(r, 404, "Room not found", [error |-> "Room not found"])
             ELSE IF ~rooms.is_active \/ rooms.is_paused
             THEN Respond(r, 400, "Room not active", [error |-> "Room not active"])
             ELSE /\ inflight' = [inflight EXCEPT ![r] = DealRequest(rooms, FALSE)]
                  /\ UNCHANGED <<response, body>>
          /\ UNCHANGED failures
       \/ /\ StoreFails
          /\ Abandon(r)
    /\ UNCHANGED <<rooms, room_players, game_states, game_state_secrets,
                   player_hands, player_actions, hand_results, evaluated,
                   sequence>>

\* fetchPlayers (167), the 400 for fewer than two players, then dealHand
\* with the deckSeed of the request body.  fetchPlayers throws when the
\* select returns an error (439), here outside the try.  For a request of
\* the web route the refusal is an error thrown by dealHandLogic, which the
\* route's catch answers 500 (part_004 72-76).
FetchDealPlayers(r, supplied) ==
    /\ At(r, "deal", "fetchPlayers")
    /\ \/ /\ \E players \in fetchPlayers(room_players) :
             IF ~EnoughPlayers(players)
             THEN IF inflight[r].web
                  THEN Respond(r, 500, "Internal server error",
                               [error |-> "Internal server error"])
                  ELSE Respond(r, 400, "Need at least two players to start",
                               [error |-> "Need at least two players to start"])
             ELSE /\ \E used \in UsedSeeds(supplied) :
                       inflight' = [inflight EXCEPT
                                      ![r].pc = "insertGameState",
                                      ![r].deckSeed = supplied,
                                      ![r].players = players,
                                      ![r].deal = dealHand(inflight[r].room, players, used)]
                  /\ UNCHANGED <<response, body>>
          /\ UNCHANGED failures
       \/ /\ StoreFails
          /\ Abandon(r)
    /\ UNCHANGED <<rooms, room_players, game_states, game_state_secrets,
                   player_hands, player_actions, hand_results, evaluated,
                   sequence>>

\* game_states.insert(gameState).select().single(): the store gives the row
\* its id.  An error is thrown before createdGameStateId is set, so the
\* catch deletes nothing.
InsertGameState(r) ==
    /\ At(r, "deal", "insertGameState")
    /\ LET gs == [inflight[r].deal.gameState EXCEPT !.id = sequence + 1] IN
       \/ /\ game_states' = InsertRow(game_states, gs.id, gs)
          /\ sequence' = gs.id
          /\ inflight' = [inflight EXCEPT
                            ![r].pc = "insertSecret",
                            ![r].deal.gameState = gs,
                            ![r].committed = Append(@, "game_states.insert")]
          /\ UNCHANGED <<response, body, failures>>
       \/ /\ StoreFails
          /\ Respond(r, 400, StoreError, [error |-> StoreError])
          /\ UNCHANGED <<game_states, sequence>>
    /\ UNCHANGED <<rooms, room_players, game_state_secrets, player_hands,
                   player_actions, hand_results, evaluated>>

\* game_state_secrets.insert
InsertSecret(r) ==
    /\ At(r, "deal", "insertSecret")
    /\ LET d == inflight[r].deal
           id == d.gameState.id
       IN
       \/ /\ game_state_secrets' = InsertRow(game_state_secrets, id, SecretRow(id, d))
          /\ Continue(r, "insertPlayerHands", "game_state_secrets.insert")
          /\ UNCHANGED failures
       \/ /\ StoreFails
          /\ inflight' = [inflight EXCEPT ![r].pc = "rollbackPlayerHands"]
          /\ UNCHANGED <<game_state_secrets, response, body>>
    /\ UNCHANGED <<rooms, room_players, game_states, player_hands,
                   player_actions, hand_results, evaluated, sequence>>

\* player_hands.insert
InsertPlayerHands(r) ==
    /\ At(r, "deal", "insertPlayerHands")
    /\ LET d == inflight[r].deal
           id == d.gameState.id
       IN
       \/ /\ player_hands' = InsertRow(player_hands, id, d.playerHands)
          /\ Continue(r, "upsertDealtPlayers", "player_hands.insert")
          /\ UNCHANGED failures
       \/ /\ StoreFails
          /\ inflight' = [inflight EXCEPT ![r].pc = "rollbackPlayerHands"]
          /\ UNCHANGED <<player_hands, response, body>>
    /\ UNCHANGED <<rooms, room_players, game_states, game_state_secrets,
                   player_actions, hand_results, evaluated, sequence>>

\* room_players.upsert(updatedPlayers): the forced bets leave the stacks
UpsertDealtPlayers(r) ==
    /\ At(r, "deal", "upsertDealtPlayers")
    /\ \/ /\ room_players' = upsert(room_players, inflight[r].deal.updatedPlayers)
          /\ Continue(r, "updateRoom", "room_players.upsert")
          /\ UNCHANGED failures
       \/ /\ StoreFails
          /\ inflight' = [inflight EXCEPT ![r].pc = "rollbackPlayerHands"]
          /\ UNCHANGED <<room_players, response, body>>
    /\ UNCHANGED <<rooms, game_states, game_state_secrets, player_hands,
                   player_actions, hand_results, evaluated, sequence>>

\* rooms.update (214-221), then 201 with { gameState: gs, deckSeed:
\* usedSeed }; the web route answers { gameState }.  The result of the
\* update is not looked at: when it fails the room keeps its hand number and
\* button and the answer is the same 201.
UpdateRoom(r) ==
    /\ At(r, "deal", "updateRoom")
    /\ LET d == inflight[r].deal IN
       /\ \/ /\ rooms' = [rooms EXCEPT
                             !.current_hand_number = d.gameState.hand_number,
                             !.button_seat = d.gameState.button_seat]
             /\ UNCHANGED failures
          \/ /\ StoreFails
             /\ UNCHANGED rooms
       /\ Respond(r, 201, "",
                  IF inflight[r].web THEN [gameState |-> d.gameState]
                  ELSE [gameState |-> d.gameState, deckSeed |-> d.deckSeed])
    /\ player_actions' = <<>>
    /\ evaluated' = <<>>
    /\ UNCHANGED <<room_players, game_states, game_state_secrets, player_hands,
                   hand_results, sequence>>

\* catch: player_hands.delete().eq("game_state_id", createdGameStateId).
\* The results of the three deletes of the catch are not looked at: a
\* delete that fails leaves its rows and the catch goes on.
RollbackPlayerHands(r) ==
    /\ At(r, "deal", "rollbackPlayerHands")
    /\ \/ /\ player_hands' = DeleteById(player_hands, inflight[r].deal.gameState.id)
          /\ UNCHANGED failures
       \/ /\ StoreFails
          /\ UNCHANGED player_hands
    /\ inflight' = [inflight EXCEPT ![r].pc = "rollbackSecret"]
    /\ UNCHANGED <<rooms, room_players, game_states, game_state_secrets,
                   player_actions, hand_results, response, evaluated, body,
                   sequence>>

\* catch: game_state_secrets.delete().eq("game_state_id", createdGameStateId)
RollbackSecret(r) ==
    /\ At(r, "deal", "rollbackSecret")
    /\ \/ /\ game_state_secrets' =
                DeleteById(game_state_secrets, inflight[r].deal.gameState.id)
          /\ UNCHANGED failures
       \/ /\ StoreFails
          /\ UNCHANGED game_state_secrets
    /\ inflight' = [inflight EXCEPT ![r].pc = "rollbackGameState"]
    /\ UNCHANGED <<rooms, room_players, game_states, player_hands,
                   player_actions, hand_results, response, evaluated, body,
                   sequence>>

\* catch: game_states.delete().eq("id", createdGameStateId), cascading to
\* the secret, then 400
RollbackGameState(r) ==
    /\ At(r, "deal", "rollbackGameState")
    /\ \/ /\ game_states' = DeleteById(game_states, inflight[r].deal.gameState.id)
          /\ game_state_secrets' =
                DeleteById(game_state_secrets, inflight[r].deal.gameState.id)
          /\ UNCHANGED failures
       \/ /\ StoreFails
          /\ UNCHANGED <<game_states, game_state_secrets>>
    /\ Respond(r, 400, StoreError, [error |-> StoreError])
    /\ UNCHANGED <<rooms, room_players, player_hands, player_actions,
                   hand_results, evaluated, sequence>>

----------------------------------------------------------------------------
(* POST /rooms/:roomId/actions, lines 236-425 *)


\* Deduplicate keeping the first snapshot of each id instead of the last
DeduplicateFirst(rows) ==
    LET firstAt(i) == \A j \in 1..(i - 1) : rows[j].id # rows[i].id
        firsts == SelectSeq([i \in DOMAIN rows |-> i], firstAt)
    IN [k \in 1..Len(firsts) |-> rows[firsts[k]]]

\* Deduplicate with the Map keyed by a value all rows share: only the last
\* row of the list survives
DeduplicateSharedKey(rows) ==
    IF rows = <<>> THEN <<>> ELSE <<rows[Len(rows)]>>

\* new Map keyed by player id, filled in list order: one row per id, placed
\* where the id first occurs and holding the last snapshot of that id
Deduplicate(rows) ==
    LET firstAt(i) == \A j \in 1..(i - 1) : rows[j].id # rows[i].id
        lastOf(id) == rows[Max({j \in DOMAIN rows : rows[j].id = id})]
        firsts == SelectSeq([i \in DOMAIN rows |-> i], firstAt)
    IN [k \in 1..Len(firsts) |-> lastOf(rows[firsts[k]].id)]

\* the upsert of the player rows left out
PersistPlayersDropped(table, updatedPlayers) == table

\* room_players.upsert(deduplicatedPlayers), skipped for an empty list
PersistPlayers(table, updatedPlayers) ==
    IF updatedPlayers = <<>> THEN table
    ELSE upsert(table, Deduplicate(updatedPlayers))

\* game_states.update(updatedGameState).eq("id", id)
UpdateGameState(states, id, updatedGameState) ==
    [i \in DOMAIN states |->
        IF i = id THEN Merge(states[i], updatedGameState) ELSE states[i]]

\* the handler without the early return on outcome.error
NeverRejected(outcome) == FALSE

\* the log row written as processed whatever the outcome
ActionLogRowProcessed(gameState, seat, actionType, amount, outcome) ==
    [game_state_id |-> gameState.id,
     processed |-> TRUE,
     error_message |-> outcome.error]

\* if (outcome.error) return 400
IsRejected(outcome) == outcome.error # NoError

\* MergedPlayers without the merge: the rows as read before the action
MergedPlayersStale(players, updatedPlayers) == players

\* players.map(p => updatedPlayers.find(u => u.id === p.id) merged over p)
MergedPlayers(players, updatedPlayers) ==
    [k \in DOMAIN players |->
        IF \E j \in DOMAIN updatedPlayers : updatedPlayers[j].id = players[k].id
        THEN Merge(players[k],
                   updatedPlayers[Min({j \in DOMAIN updatedPlayers :
                                          updatedPlayers[j].id = players[k].id})])
        ELSE players[k]]

\* hole cards of the seats that have not folded
ActiveHands(playerHands, mergedPlayers) ==
    LET active == SelectSeq(mergedPlayers, LAMBDA p : ~p.has_folded)
        kept == SelectSeq(playerHands,
                          LAMBDA ph : \E i \in DOMAIN active :
                                         active[i].seat_number = ph.seat_number)
    IN [k \in DOMAIN kept |->
          [seatNumber |-> kept[k].seat_number, cards |-> kept[k].cards]]

\* credit rows that carry the payout as the new stack
CreditUpdatesAmountOnly(payouts, mergedPlayers) ==
    LET found == SelectSeq(payouts,
                           LAMBDA p : \E i \in DOMAIN mergedPlayers :
                                         mergedPlayers[i].seat_number = p.seat)
        playerOf(seat) ==
            mergedPlayers[Min({i \in DOMAIN mergedPlayers :
                                  mergedPlayers[i].seat_number = seat})]
    IN [k \in DOMAIN found |->
          [id |-> playerOf(found[k].seat).id,
           seat_number |-> playerOf(found[k].seat).seat_number,
           total_buy_in |-> playerOf(found[k].seat).total_buy_in,
           chip_stack |-> found[k].amount]]

\* one credit row per payout whose seat has a player
CreditUpdates(payouts, mergedPlayers) ==
    LET found == SelectSeq(payouts,
                           LAMBDA p : \E i \in DOMAIN mergedPlayers :
                                         mergedPlayers[i].seat_number = p.seat)
        playerOf(seat) ==
            mergedPlayers[Min({i \in DOMAIN mergedPlayers :
                                  mergedPlayers[i].seat_number = seat})]
    IN [k \in DOMAIN found |->
          [id |-> playerOf(found[k].seat).id,
           seat_number |-> playerOf(found[k].seat).seat_number,
           total_buy_in |-> playerOf(found[k].seat).total_buy_in,
           chip_stack |-> playerOf(found[k].seat).chip_stack + found[k].amount]]

\* Array.from(new Set([...board1Winners, ...board2Winners]))
AllWinners(board1Winners, board2Winners) ==
    LET both == board1Winners \o board2Winners
        firsts == SelectSeq([i \in DOMAIN both |-> i],
                            LAMBDA i : \A j \in 1..(i - 1) : both[j] # both[i])
    IN [k \in DOMAIN firsts |-> both[firsts[k]]]

\* the player_actions row of a request; the columns copied from the request
\* (seat_number, action_type, amount, auth_user_id) are left out
ActionLogRow(gameState, seat, actionType, amount, outcome) ==
    [game_state_id |-> gameState.id,
     processed |-> (outcome.error = NoError),
     error_message |-> outcome.error]

\* the tables and response after the writes of a completed hand
\* actionSchema: seatNumber an integer, actionType one of ACTIONS, amount
\* absent or a positive integer
actionSchema(payload) ==
    /\ payload.seatNumber \in Int
    /\ payload.actionType \in ActionTypes
    /\ (payload.amount = NoAmount \/ payload.amount > 0)

\* the message of the error a schema reports
ZodError == "ZodError"

\* bodies the action schema does not accept: an action type that is not one
\* of ACTIONS, and an amount that is not positive
BadPayloads ==
    {[seatNumber |-> 0, actionType |-> "muck", amount |-> NoAmount],
     [seatNumber |-> 1, actionType |-> "bet", amount |-> -1]}

\* actionSchema.safeParse fails (238-241): 400 before any store call
RefusePayload(r, payload) ==
    /\ FreeSlot(r)
    /\ ~actionSchema(payload)
    /\ Respond(r, 400, ZodError, [error |-> ZodError])
    /\ UNCHANGED <<rooms, room_players, game_states, game_state_secrets,
                   player_hands, player_actions, hand_results, evaluated,
                   failures, sequence>>

\* the local variables of the actions handler once the room has been read
ActionRequest(room) ==
    [kind |-> "action", pc |-> "fetchGameState", room |-> room,
     gameState |-> NoGameState, secret |-> NoSecret, players |-> <<>>,
     seat |-> -1, actionType |-> "", amount |-> NoAmount,
     outcome |-> Rejected(NoError), winners |-> Undefined,
     creditUpdates |-> <<>>, committed |-> <<>>]

\* catch of the actions handler (420-424): 500 with the message of the
\* error, nothing is undone
Throw(r) ==
    /\ StoreFails
    /\ Respond(r, 500, StoreError, [error |-> StoreError])

\* fetchRoom (245), 404 without a room; fetchRoom throws when the select
\* returns an error (429), here inside the try
ReceiveAction(r) ==
    /\ FreeSlot(r)
    /\ \/ /\ IF rooms = NoRoom
             THEN Respond(r, 404, "Room not found", [error |-> "Room not found"])
             ELSE /\ inflight' = [inflight EXCEPT ![r] = ActionRequest(rooms)]
                  /\ UNCHANGED <<response, body>>
          /\ UNCHANGED failures
       \/ Throw(r)
    /\ UNCHANGED <<rooms, room_players, game_states, game_state_secrets,
                   player_hands, player_actions, hand_results, evaluated,
                   sequence>>

\* fetchLatestGameState (248), 400 without a hand; it throws when the
\* select returns an error (451)
FetchGameState(r) ==
    /\ At(r, "action", "fetchGameState")
    /\ \/ /\ \E gameState \in fetchLatestGameState(game_states) :
                IF gameState = NoGameState
                THEN Respond(r, 400, "No active hand", [error |-> "No active hand"])
                ELSE /\ inflight' = [inflight EXCEPT ![r].pc = "fetchSecret",
                                                     ![r].gameState = gameState]
                     /\ UNCHANGED <<response, body>>
          /\ UNCHANGED failures
       \/ Throw(r)
    /\ UNCHANGED <<rooms, room_players, game_states, game_state_secrets,
                   player_hands, player_actions, hand_results, evaluated,
                   sequence>>

\* fetchGameStateSecret(gameState.id) (251), 500 without a secret
FetchSecret(r) ==
    /\ At(r, "action", "fetchSecret")
    /\ LET secret == fetchGameStateSecret(game_state_secrets, inflight[r].gameState.id) IN
       IF secret = NoSecret
       THEN Respond(r, 500, "Missing game secrets", [error |-> "Missing game secrets"])
       ELSE /\ inflight' = [inflight EXCEPT ![r].pc = "fetchPlayers",
                                            ![r].secret = secret]
            /\ UNCHANGED <<response, body>>
    /\ UNCHANGED <<rooms, room_players, game_states, game_state_secrets,
                   player_hands, player_actions, hand_results, evaluated,
                   failures, sequence>>

\* fetchPlayers(roomId) (254); it throws when the select returns an error
\* (439)
FetchPlayers(r) ==
    /\ At(r, "action", "fetchPlayers")
    /\ \/ /\ \E players \in fetchPlayers(room_players) :
                inflight' = [inflight EXCEPT ![r].pc = "insertPlayerAction",
                                             ![r].players = players]
          /\ UNCHANGED <<response, body, failures>>
       \/ Throw(r)
    /\ UNCHANGED <<rooms, room_players, game_states, game_state_secrets,
                   player_hands, player_actions, hand_results, evaluated,
                   sequence>>

\* what applyAction is called with (256-268): the rows the request has read
ActionContext(q) ==
    [room |-> q.room, players |-> q.players, gameState |-> q.gameState,
     fullBoard1 |-> q.secret.full_board1, fullBoard2 |-> q.secret.full_board2]

\* player_actions.insert (270-282) for the outcome applyAction returned,
\* then 400 on outcome.error.  The result of the insert is not looked at:
\* when it fails no row is stored and the handler goes on all the same.
RecordOutcome(r, seat, actionType, amount, outcome) ==
    LET q == inflight[r] IN
    /\ \/ /\ player_actions' =
                <<ActionLogRow(q.gameState, seat, actionType, amount, outcome)>>
          /\ UNCHANGED failures
       \/ /\ StoreFails
          /\ player_actions' = <<>>
    /\ evaluated' = <<>>
    /\ IF IsRejected(outcome)
       THEN Respond(r, 400, outcome.error, [error |-> outcome.error])
       ELSE /\ inflight' = [inflight EXCEPT ![r].pc = "upsertPlayers",
                                            ![r].seat = seat,
                                            ![r].actionType = actionType,
                                            ![r].amount = amount,
                                            ![r].outcome = outcome]
            /\ UNCHANGED <<response, body>>
    /\ UNCHANGED <<rooms, room_players, game_states, game_state_secrets,
                   player_hands, hand_results, sequence>>

\* applyAction on what was read, with the seat, action type and amount of
\* the request body, and the insert of the player_actions row
InsertPlayerAction(r, seat, actionType, amount) ==
    /\ At(r, "action", "insertPlayerAction")
    /\ actionSchema([seatNumber |-> seat, actionType |-> actionType, amount |-> amount])
    /\ RecordOutcome(r, seat, actionType, amount,
                     applyAction(ActionContext(inflight[r]), seat, actionType, amount))

\* room_players.upsert(deduplicatedPlayers) (298), skipped for an empty list
UpsertPlayers(r) ==
    /\ At(r, "action", "upsertPlayers")
    /\ \/ /\ room_players' = PersistPlayers(room_players, inflight[r].outcome.updatedPlayers)
          /\ Continue(r, "updateGameState", "room_players.upsert")
          /\ UNCHANGED failures
       \/ /\ inflight[r].outcome.updatedPlayers # <<>>
          /\ Throw(r)
          /\ UNCHANGED room_players
    /\ UNCHANGED <<rooms, game_states, game_state_secrets, player_hands,
                   player_actions, hand_results, evaluated, sequence>>

\* a hand that has completed pays out when there are winners and a pot
PaysOut(outcome) == outcome.autoWinners # Undefined /\ outcome.potAwarded # 0

\* game_states.update(updatedGameState).eq("id", gameState.id) (303); a hand
\* that goes on is answered here with { ok: true, gameState }
UpdateGameStateRow(r) ==
    /\ At(r, "action", "updateGameState")
    /\ LET q == inflight[r]
           outcome == q.outcome
       IN
       \/ /\ game_states' = UpdateGameState(game_states, q.gameState.id,
                                            outcome.updatedGameState)
          /\ UNCHANGED failures
          /\ IF ~outcome.handCompleted
             THEN Respond(r, 200, "",
                          [ok |-> TRUE,
                           gameState |-> Merge(q.gameState, outcome.updatedGameState)])
             ELSE IF PaysOut(outcome)
             THEN Continue(r, "fetchPlayerHands", "game_states.update")
             ELSE Continue(r, "deleteGameState", "game_states.update")
       \/ /\ Throw(r)
          /\ UNCHANGED game_states
    /\ UNCHANGED <<rooms, room_players, game_state_secrets, player_hands,
                   player_actions, hand_results, evaluated, sequence>>

\* player_hands.select (313), then determineDoubleBoardWinners on the hands
\* of the seats that have not folded and endOfHandPayout (320-349)
FetchPlayerHands(r) ==
    /\ At(r, "action", "fetchPlayerHands")
    /\ LET q == inflight[r]
           playerHands == IF q.gameState.id \in DOMAIN player_hands
                          THEN player_hands[q.gameState.id] ELSE <<>>
           mergedPlayers == MergedPlayers(q.players, q.outcome.updatedPlayers)
           activeHands == ActiveHands(playerHands, mergedPlayers)
       IN
       \/ /\ \E winners \in determineDoubleBoardWinners(
                               activeHands, q.secret.full_board1, q.secret.full_board2) :
               LET payouts == endOfHandPayout(winners.board1Winners,
                                              winners.board2Winners,
                                              q.outcome.potAwarded)
                   creditUpdates == CreditUpdates(payouts, mergedPlayers)
               IN /\ inflight' = [inflight EXCEPT
                                    ![r].pc = IF creditUpdates = <<>>
                                              THEN "insertHandResult"
                                              ELSE "creditWinners",
                                    ![r].winners = winners,
                                    ![r].creditUpdates = creditUpdates]
                  /\ evaluated' = <<winners>>
          /\ UNCHANGED <<response, body, failures>>
       \/ /\ Throw(r)
          /\ UNCHANGED evaluated
    /\ UNCHANGED <<rooms, room_players, game_states, game_state_secrets,
                   player_hands, player_actions, hand_results, sequence>>

\* room_players.upsert(creditUpdates) (365)
CreditWinners(r) ==
    /\ At(r, "action", "creditWinners")
    /\ \/ /\ room_players' = upsert(room_players, inflight[r].creditUpdates)
          /\ Continue(r, "insertHandResult", "room_players.upsert credit")
          /\ UNCHANGED failures
       \/ /\ Throw(r)
          /\ UNCHANGED room_players
    /\ UNCHANGED <<rooms, game_states, game_state_secrets, player_hands,
                   player_actions, hand_results, evaluated, sequence>>

\* the hand_results row of a hand (382-391)
HandResultRow(gameState, outcome, winners) ==
    [hand_number |-> gameState.hand_number,
     final_pot |-> outcome.potAwarded,
     board_a |-> gameState.board_state.board1,
     board_b |-> gameState.board_state.board2,
     winners |-> AllWinners(winners.board1Winners, winners.board2Winners),
     action_history |-> outcome.updatedGameState.action_history]

\* hand_results.insert (382)
InsertHandResult(r) ==
    /\ At(r, "action", "insertHandResult")
    /\ LET q == inflight[r] IN
       \/ /\ hand_results' =
                Append(hand_results, HandResultRow(q.gameState, q.outcome, q.winners))
          /\ Continue(r, "deleteGameState", "hand_results.insert")
          /\ UNCHANGED failures
       \/ /\ Throw(r)
          /\ UNCHANGED hand_results
    /\ UNCHANGED <<rooms, room_players, game_states, game_state_secrets,
                   player_hands, player_actions, evaluated, sequence>>

\* game_states.delete().eq("id", gameState.id) (395), cascading to the
\* secret, then { ok: true }
DeleteGameState(r) ==
    /\ At(r, "action", "deleteGameState")
    /\ LET id == inflight[r].gameState.id IN
       \/ /\ game_states' = DeleteById(game_states, id)
          /\ game_state_secrets' = DeleteById(game_state_secrets, id)
          /\ Respond(r, 200, "", [ok |-> TRUE])
          /\ UNCHANGED failures
       \/ /\ Throw(r)
          /\ UNCHANGED <<game_states, game_state_secrets>>
    /\ UNCHANGED <<rooms, room_players, player_hands, player_actions,
                   hand_results, evaluated, sequence>>

----------------------------------------------------------------------------
(* POST /rooms/:roomId/join, lines 103-155, one store call at a time: the    *)
(* select of the seat's row and the insert of the new row are separate       *)
(* awaits, and requests in different slots interleave between them.          *)

\* the message of the store when an insert breaks a unique constraint
UniqueViolation == "duplicate key value violates unique constraint"

\* rows of the room at a seat
RowsAtSeat(seat) ==
    {i \in DOMAIN room_players : room_players[i].seat_number = seat}

\* the id the store gives a new room_players row
FreshId(seat) ==
    IF PlayerId(seat) \notin DOMAIN room_players THEN PlayerId(seat)
    ELSE Max(DOMAIN room_players) + 1

\* fetch of the room, the 404, and the buy-in check
ReceiveJoin(r, seat, buyIn) ==
    /\ FreeSlot(r)
    /\ IF rooms = NoRoom
       THEN Respond(r, 404, "Room not found", [error |-> "Room not found"])
       ELSE IF buyIn < rooms.min_buy_in \/ buyIn > rooms.max_buy_in
       THEN Respond(r, 400, "Buy-in out of range", [error |-> "Buy-in out of range"])
       ELSE /\ inflight' = [inflight EXCEPT ![r] =
                              [kind |-> "join", pc |-> "selectExisting",
                               seat |-> seat, buyIn |-> buyIn]]
            /\ UNCHANGED <<response, body>>
    /\ UNCHANGED <<rooms, room_players, game_states, game_state_secrets,
                   player_hands, player_actions, hand_results, evaluated,
                   failures, sequence>>

\* room_players.select.eq(seat_number).maybeSingle(): data is the row when
\* exactly one matches, and null (with an error nobody reads) otherwise
SelectExisting(r) ==
    /\ At(r, "join", "selectExisting")
    /\ IF Cardinality(RowsAtSeat(inflight[r].seat)) = 1
       THEN Respond(r, 400, "Seat already taken", [error |-> "Seat already taken"])
       ELSE /\ inflight' = [inflight EXCEPT ![r].pc = "insertPlayer"]
            /\ UNCHANGED <<response, body>>
    /\ UNCHANGED <<rooms, room_players, game_states, game_state_secrets,
                   player_hands, player_actions, hand_results, evaluated,
                   failures, sequence>>

\* room_players.insert(...).select().single() (129-142): the row is stored
\* and kept by the request; for a seat taken in the meantime the store may
\* also refuse the row, the handler then throws and the catch answers 400
\* with the store's message
InsertPlayer(r) ==
    /\ At(r, "join", "insertPlayer")
    /\ LET q == inflight[r]
           player == [NewPlayer(q.seat, q.buyIn) EXCEPT !.id = FreshId(q.seat)]
       IN \/ /\ room_players' = [i \in DOMAIN room_players \cup {player.id} |->
                                    IF i = player.id THEN player
                                    ELSE room_players[i]]
             /\ inflight' = [inflight EXCEPT ![r] =
                               [kind |-> "join", pc |-> "updateLastActivity",
                                seat |-> q.seat, buyIn |-> q.buyIn,
                                player |-> player]]
             /\ UNCHANGED <<response, body>>
          \/ /\ RowsAtSeat(q.seat) # {}
             /\ Respond(r, 400, UniqueViolation, [error |-> UniqueViolation])
             /\ UNCHANGED room_players
    /\ UNCHANGED <<rooms, game_states, game_state_secrets, player_hands,
                   player_actions, hand_results, evaluated, failures, sequence>>

\* rooms.update({ last_activity_at }) (144-147), whose result is not read,
\* then the 201 with the inserted row (149).  The column holds the time of
\* the call and nothing reads it: the room row of the model does not carry
\* it.
UpdateLastActivity(r) ==
    /\ At(r, "join", "updateLastActivity")
    /\ Respond(r, 201, "", [player |-> inflight[r].player])
    /\ UNCHANGED <<rooms, room_players, game_states, game_state_secrets,
                   player_hands, player_actions, hand_results, evaluated,
                   failures, sequence>>

----------------------------------------------------------------------------

\* no table view is mounted in a browser
Unmounted == [mounted |-> FALSE]

\* no request has been made yet
InitRequests ==
    /\ hook = Unmounted
    /\ player_actions = <<>>
    /\ response = NoResponse
    /\ evaluated = <<>>
    /\ body = NoBody
    /\ inflight = [r \in Slots |-> Idle]
    /\ failures = 0
    /\ received = 0
    /\ keyed = <<>>
    /\ sequence = 0

\* the empty store of a room whose seats in `seated` joined with buy-in `buyIn`
InitStore(seated, buyIn) ==
    /\ rooms = NewRoom
    /\ room_players = [i \in {PlayerId(s) : s \in seated} |->
                          NewPlayer(i - 10, buyIn[i - 10])]
    /\ game_states = <<>>
    /\ game_state_secrets = <<>>
    /\ player_hands = <<>>
    /\ hand_results = <<>>

Init ==
    /\ rooms = NewRoom
    /\ \E seated \in Tables :
         \E buyIn \in [seated -> BuyIns] :
            /\ SumOver(buyIn, seated) <= MaxTableChips
            /\ room_players = [i \in {PlayerId(s) : s \in seated} |->
                                  NewPlayer(i - 10, buyIn[i - 10])]
    /\ game_states = <<>>
    /\ game_state_secrets = <<>>
    /\ player_hands = <<>>
    /\ hand_results = <<>>
    /\ InitRequests

\* clients that send a request only after the previous one was answered:
\* one slot is in use
Serial == {1}

\* no store call fails in this step
Succeeds == UNCHANGED <<failures, received, keyed, hook>>

\* the store calls of start-hand after the room was read, none of them
\* failing, for requests whose deckSeed is in `seeds`
DealCalls(S, seeds) ==
    \/ /\ \E r \in S, supplied \in seeds : FetchDealPlayers(r, supplied)
       /\ Succeeds
    \/ /\ \E r \in S : InsertGameState(r)
       /\ Succeeds
    \/ /\ \E r \in S : InsertSecret(r)
       /\ Succeeds
    \/ /\ \E r \in S : InsertPlayerHands(r)
       /\ Succeeds
    \/ /\ \E r \in S : UpsertDealtPlayers(r)
       /\ Succeeds
    \/ /\ \E r \in S : UpdateRoom(r)
       /\ Succeeds

\* the store calls of the actions handler, none of them failing, for
\* requests that name a seat in `seats` and an action type in `actionTypes`
ActionCalls(S, seats, actionTypes) ==
    \/ /\ \E r \in S : ReceiveAction(r)
       /\ Succeeds
    \/ /\ \E r \in S : FetchGameState(r)
       /\ Succeeds
    \/ /\ \E r \in S : FetchSecret(r)
       /\ Succeeds
    \/ /\ \E r \in S : FetchPlayers(r)
       /\ Succeeds
    \/ /\ \E r \in S, seat \in seats, actionType \in actionTypes :
             \E amount \in Amounts(actionType) :
                InsertPlayerAction(r, seat, actionType, amount)
       /\ Succeeds
    \/ /\ \E r \in S : UpsertPlayers(r)
       /\ Succeeds
    \/ /\ \E r \in S : UpdateGameStateRow(r)
       /\ Succeeds
    \/ /\ \E r \in S : FetchPlayerHands(r)
       /\ Succeeds
    \/ /\ \E r \in S : CreditWinners(r)
       /\ Succeeds
    \/ /\ \E r \in S : InsertHandResult(r)
       /\ Succeeds
    \/ /\ \E r \in S : DeleteGameState(r)
       /\ Succeeds

\* one table, one hand: start-hand requests arrive until the room has been
\* dealt MaxHands hands, action requests at any time
Next ==
    \/ /\ rooms.current_hand_number < MaxHands
       /\ \E r \in Serial : ReceiveStartHand(r)
       /\ Succeeds
    \/ DealCalls(Serial, DeckSeeds)
    \/ ActionCalls(Serial, RequestSeats, ActionTypes)

Spec == Init /\ [][Next]_vars

----------------------------------------------------------------------------
(* A match: one full table playing hand after hand *)

\* hands dealt in a match
MatchHands == 2

\* in a match every request is a fold or an all-in
MatchActions == {"fold", "all_in"}

InitMatch ==
    /\ InitStore(SeatNumbers, [s \in SeatNumbers |-> MinBuyIn])
    /\ InitRequests

NextMatch ==
    \/ /\ rooms.current_hand_number < MatchHands
       /\ \E r \in Serial : ReceiveStartHand(r)
       /\ Succeeds
    \/ DealCalls(Serial, DeckSeeds)
    \/ ActionCalls(Serial, SeatNumbers, MatchActions)

SpecMatch == InitMatch /\ [][NextMatch]_vars

----------------------------------------------------------------------------
(* Retried submissions: a heads-up hand in which a client sends an action  *)
(* request with an idempotencyKey and may send the same request again      *)

IdempotencyKeys == {"k1"}

\* the action types sent with an idempotencyKey
KeyedActions == {"check", "call"}

\* submissions of one idempotencyKey
MaxSubmissions == 2

\* a submission that has not been answered
NoAnswer == [status |-> 0, body |-> NoBody]

\* the keys whose submission is in the handler
Pending == {k \in DOMAIN keyed : keyed[k].pending}

\* keyed[k] after a step of the request in slot r that was sent with the
\* key k: the answer of the request is recorded, and that its action was
\* accepted, when the request carries the payload the key was first sent
\* with
Noted(q, r) ==
    LET answered == inflight'[r].kind = "idle"
        accepted == At(r, "action", "insertPlayerAction") /\ ~answered
        answer == [status |-> response'.status, body |-> body']
        same == q.current = q.payload
    IN [q EXCEPT
          !.applied = IF accepted /\ same THEN @ + 1 ELSE @,
          !.pending = ~answered,
          !.first = IF answered /\ same /\ q.first = NoAnswer THEN answer ELSE @,
          !.last = IF answered /\ same THEN answer ELSE @]

\* POST /rooms/:roomId/actions with payload.idempotencyKey = key; the
\* schema accepts the key and the handler never reads it, so the request is
\* received like any other, whatever was sent with the key before.  keyed
\* records, per key, the payload it was first sent with, the payload of the
\* latest request, the number of requests, whether the latest one repeats
\* the first payload, the first and the latest answer to that payload and
\* how often its action was accepted.
Submit(r, key, seat, actionType, amount) ==
    /\ ReceiveAction(r)
    /\ LET payload == <<seat, actionType, amount>>
           sent == IF key \in DOMAIN keyed
                   THEN [keyed[key] EXCEPT !.current = payload,
                                           !.submitted = @ + 1,
                                           !.retry = (payload = keyed[key].payload),
                                           !.pending = TRUE]
                   ELSE [payload |-> payload,
                         current |-> payload,
                         submitted |-> 1,
                         retry |-> FALSE,
                         applied |-> 0,
                         pending |-> TRUE,
                         first |-> NoAnswer,
                         last |-> NoAnswer]
       IN keyed' = [k \in DOMAIN keyed \cup {key} |->
                       IF k = key THEN Noted(sent, r) ELSE keyed[k]]

\* keyed after a step of the request in slot r
Tracked(r) ==
    [k \in DOMAIN keyed |->
        IF keyed[k].pending THEN Noted(keyed[k], r) ELSE keyed[k]]

\* the body of a request sent with a key is the payload it was sent with
KeyedPayload(seat, actionType, amount) ==
    \A k \in Pending : keyed[k].current = <<seat, actionType, amount>>

\* the key has been sent fewer than MaxSubmissions times
MaySubmit(key) ==
    key \in DOMAIN keyed => keyed[key].submitted < MaxSubmissions

InitRetry ==
    /\ InitStore({0, 1}, [s \in {0, 1} |-> MinBuyIn])
    /\ InitRequests

NextRetry ==
    \/ /\ rooms.current_hand_number < MaxHands
       /\ \E r \in Serial : ReceiveStartHand(r)
       /\ Succeeds
    \/ DealCalls(Serial, DeckSeeds)
    \/ /\ \E r \in Serial : ReceiveAction(r)
       /\ Succeeds
    \/ /\ \E r \in Serial, key \in IdempotencyKeys, seat \in {0, 1},
             actionType \in KeyedActions :
                /\ MaySubmit(key)
                /\ Submit(r, key, seat, actionType, NoAmount)
       /\ UNCHANGED <<failures, received, hook>>
    \/ /\ \E r \in Serial : FetchGameState(r) /\ keyed' = Tracked(r)
       /\ UNCHANGED <<failures, received, hook>>
    \/ /\ \E r \in Serial : FetchSecret(r) /\ keyed' = Tracked(r)
       /\ UNCHANGED <<failures, received, hook>>
    \/ /\ \E r \in Serial : FetchPlayers(r) /\ keyed' = Tracked(r)
       /\ UNCHANGED <<failures, received, hook>>
    \/ /\ \E r \in Serial, seat \in RequestSeats, actionType \in ActionTypes :
             \E amount \in Amounts(actionType) :
                /\ KeyedPayload(seat, actionType, amount)
                /\ InsertPlayerAction(r, seat, actionType, amount)
                /\ keyed' = Tracked(r)
       /\ UNCHANGED <<failures, received, hook>>
    \/ /\ \E r \in Serial : UpsertPlayers(r) /\ keyed' = Tracked(r)
       /\ UNCHANGED <<failures, received, hook>>
    \/ /\ \E r \in Serial : UpdateGameStateRow(r) /\ keyed' = Tracked(r)
       /\ UNCHANGED <<failures, received, hook>>
    \/ /\ \E r \in Serial : FetchPlayerHands(r) /\ keyed' = Tracked(r)
       /\ UNCHANGED <<failures, received, hook>>
    \/ /\ \E r \in Serial : CreditWinners(r) /\ keyed' = Tracked(r)
       /\ UNCHANGED <<failures, received, hook>>
    \/ /\ \E r \in Serial : InsertHandResult(r) /\ keyed' = Tracked(r)
       /\ UNCHANGED <<failures, received, hook>>
    \/ /\ \E r \in Serial : DeleteGameState(r) /\ keyed' = Tracked(r)
       /\ UNCHANGED <<failures, received, hook>>

SpecRetry == InitRetry /\ [][NextRetry]_vars

----------------------------------------------------------------------------
(* Concurrent requests and failing store calls: two slots are in use, so   *)
(* requests interleave between their reads and writes, and a store call    *)
(* can fail and throw.                                                     *)

\* action requests received in a run
MaxReceived == 2

\* the action requests of the concurrent handlers
StepSeats == {0, 1}
StepActions == {"fold", "call"}

\* no request is counted and no key recorded in this step
Uncounted == UNCHANGED <<received, keyed, hook>>

\* one more action request
Counted ==
    /\ received < MaxReceived
    /\ received' = received + 1
    /\ UNCHANGED <<keyed, hook>>

InitSteps ==
    /\ InitStore(StepSeats, [s \in StepSeats |-> MinBuyIn])
    /\ InitRequests

\* start-hand requests arrive until MaxHands hand-state rows have been
\* inserted: a rooms update that fails leaves current_hand_number behind
NextSteps ==
    \/ /\ sequence < MaxHands
       /\ \E r \in Slots : ReceiveStartHand(r)
       /\ Uncounted
    \/ /\ \E r \in Slots, supplied \in DeckSeeds : FetchDealPlayers(r, supplied)
       /\ Uncounted
    \/ /\ \E r \in Slots : InsertGameState(r)
       /\ Uncounted
    \/ /\ \E r \in Slots : InsertSecret(r)
       /\ Uncounted
    \/ /\ \E r \in Slots : InsertPlayerHands(r)
       /\ Uncounted
    \/ /\ \E r \in Slots : UpsertDealtPlayers(r)
       /\ Uncounted
    \/ /\ \E r \in Slots : UpdateRoom(r)
       /\ Uncounted
    \/ /\ \E r \in Slots : RollbackPlayerHands(r)
       /\ Uncounted
    \/ /\ \E r \in Slots : RollbackSecret(r)
       /\ Uncounted
    \/ /\ \E r \in Slots : RollbackGameState(r)
       /\ Uncounted
    \/ \E r \in Slots : RejectStartHandBody(r)
    \/ /\ \E r \in Slots, payload \in BadPayloads : RefusePayload(r, payload)
       /\ Counted
    \/ /\ \E r \in Slots : ReceiveAction(r)
       /\ Counted
    \/ /\ \E r \in Slots : FetchGameState(r)
       /\ Uncounted
    \/ /\ \E r \in Slots : FetchSecret(r)
       /\ Uncounted
    \/ /\ \E r \in Slots : FetchPlayers(r)
       /\ Uncounted
    \/ /\ \E r \in Slots, seat \in StepSeats, actionType \in StepActions :
             InsertPlayerAction(r, seat, actionType, NoAmount)
       /\ Uncounted
    \/ /\ \E r \in Slots : UpsertPlayers(r)
       /\ Uncounted
    \/ /\ \E r \in Slots : UpdateGameStateRow(r)
       /\ Uncounted
    \/ /\ \E r \in Slots : FetchPlayerHands(r)
       /\ Uncounted
    \/ /\ \E r \in Slots : CreditWinners(r)
       /\ Uncounted
    \/ /\ \E r \in Slots : InsertHandResult(r)
       /\ Uncounted
    \/ /\ \E r \in Slots : DeleteGameState(r)
       /\ Uncounted

SpecSteps == InitSteps /\ [][NextSteps]_vars

----------------------------------------------------------------------------
(* The lobby: a room that starts empty.  Players join seat by seat and     *)
(* start-hand requests arrive at any time, with a deck seed or without     *)
(* one.                                                                    *)

LobbyHands == 2

\* buy-ins a join request may carry, one below and one above the room's range
JoinBuyIns == (MinBuyIn - 1)..(MaxBuyIn + 1)

\* the store calls of the join handler for the requests in the slots S
JoinCalls(S, seats, buyIns) ==
    \/ /\ \E r \in S, seat \in seats, buyIn \in buyIns : ReceiveJoin(r, seat, buyIn)
       /\ Succeeds
    \/ /\ \E r \in S : SelectExisting(r)
       /\ Succeeds
    \/ /\ \E r \in S : InsertPlayer(r)
       /\ Succeeds
    \/ /\ \E r \in S : UpdateLastActivity(r)
       /\ Succeeds

InitLobby ==
    /\ InitStore({}, <<>>)
    /\ InitRequests

NextLobby ==
    \/ JoinCalls(Serial, SeatNumbers, JoinBuyIns)
    \/ /\ rooms.current_hand_number < LobbyHands
       /\ \E r \in Serial : ReceiveStartHand(r)
       /\ Succeeds
    \/ DealCalls(Serial, LobbySeeds \cup {NoSeed})

SpecLobby == InitLobby /\ [][NextLobby]_vars

----------------------------------------------------------------------------
(* Concurrent joins: join requests in two slots.                           *)

MaxJoins == 4

\* one more join request
CountedJoin ==
    /\ received < MaxJoins
    /\ received' = received + 1
    /\ UNCHANGED <<failures, keyed, hook>>

InitJoins ==
    /\ InitStore({}, <<>>)
    /\ InitRequests

NextJoins ==
    \/ /\ \E r \in Slots, seat \in SeatNumbers, buyIn \in JoinBuyIns :
             ReceiveJoin(r, seat, buyIn)
       /\ CountedJoin
    \/ /\ \E r \in Slots : SelectExisting(r)
       /\ Succeeds
    \/ /\ \E r \in Slots : InsertPlayer(r)
       /\ Succeeds
    \/ /\ \E r \in Slots : UpdateLastActivity(r)
       /\ Succeeds

SpecJoins == InitJoins /\ [][NextJoins]_vars

----------------------------------------------------------------------------
(* Indian-poker visible cards: the database function                         *)
(* get_indian_poker_visible_cards (migration 20251227000000, part 5), which  *)
(* any authenticated or anonymous client may execute, and the engine route   *)
(* GET /rooms/:roomId/game-states/:gameStateId/indian-poker-cards in front   *)
(* of it.  The route is not part of the sources at hand; it is modelled from *)
(* its integration test.                                                     *)

GameModes == {"indian_poker", "double_board_plo"}

\* a request without an Authorization header
NoUser == 0
\* an authenticated user who has nothing to do with the room
Outsider == 99
\* a user is known by the id of the player row that belongs to them
Users == {NoUser} \cup {PlayerId(s) : s \in SeatNumbers}

\* the request carries no ?seat= parameter
NoSeatParam == -1
SeatParams == SeatNumbers \cup {NoSeatParam}

\* game state ids a request may name, one of them never dealt
GameStateIds == 1..(LobbyHands + 1)

\* raise exception 'This function only works for Indian Poker mode'
WrongMode == "This function only works for Indian Poker mode"
Raised == [raised |-> TRUE, rows |-> <<>>]

\* game_mode of the room of the game state, null without such a game state
GameModeOf(game_state_id_param) ==
    IF game_state_id_param \in DOMAIN game_states THEN rooms.game_mode ELSE "null"

\* select ... from player_hands ph where ph.game_state_id =
\* game_state_id_param order by ph.seat_number: every row of the game state;
\* the set of lists the select can return, one list unless two rows share a
\* seat number
HandsOf(game_state_id_param) ==
    IF game_state_id_param \notin DOMAIN player_hands THEN {<<>>}
    ELSE InSeatOrder(player_hands[game_state_id_param],
                     DOMAIN player_hands[game_state_id_param])

\* seat_number and (ph.cards::jsonb->>0)::text of each row
FirstCards(hands) ==
    [n \in DOMAIN hands |-> [seat_number |-> hands[n].seat_number,
                             visible_card |-> hands[n].cards[1]]]

\* the function without its filter on the requesting seat
get_indian_poker_visible_cards_all(game_state_id_param, requesting_seat_number) ==
    IF GameModeOf(game_state_id_param) \notin {"indian_poker", "null"} THEN {Raised}
    ELSE {[raised |-> FALSE, rows |-> FirstCards(hands)] :
             hands \in HandsOf(game_state_id_param)}

\* select ph.seat_number, (ph.cards::jsonb->>0)::text from player_hands ph
\* where ph.game_state_id = game_state_id_param
\*   and ph.seat_number != requesting_seat_number order by ph.seat_number:
\* one entry per row; the results the call can return
get_indian_poker_visible_cards(game_state_id_param, requesting_seat_number) ==
    IF GameModeOf(game_state_id_param) \notin {"indian_poker", "null"} THEN {Raised}
    ELSE {[raised |-> FALSE,
           rows |-> FirstCards(SelectSeq(hands,
                       LAMBDA ph : ph.seat_number # requesting_seat_number))] :
             hands \in HandsOf(game_state_id_param)}

\* supabase.rpc("get_indian_poker_visible_cards", ...) sent by any client
CallVisibleCardsFunction(game_state_id_param, requesting_seat_number) ==
    /\ \E result \in get_indian_poker_visible_cards(game_state_id_param,
                                                    requesting_seat_number) :
          IF result.raised
          THEN /\ response' = [status |-> 400, error |-> WrongMode]
               /\ body' = [error |-> WrongMode]
          ELSE /\ response' = [status |-> 200, error |-> ""]
               /\ body' = [rows |-> result.rows]
    /\ UNCHANGED <<rooms, room_players, game_states, game_state_secrets,
                   player_hands, player_actions, hand_results, evaluated>>

IsSpectating(player) ==
    "is_spectating" \in DOMAIN player /\ player.is_spectating

\* the seat has a player_hands row in the game state
HoldsHand(gameStateId, seat) ==
    /\ gameStateId \in DOMAIN game_states
    /\ gameStateId \in DOMAIN player_hands
    /\ \E k \in DOMAIN player_hands[gameStateId] :
          player_hands[gameStateId][k].seat_number = seat

Answer(status, error, json) ==
    [status |-> status, error |-> error, body |-> json]

\* a seat parameter, when given, must be the caller's own seat
SeatMatches(seat, player) ==
    seat = NoSeatParam \/ seat = player.seat_number

\* { "0": ["AS"], "2": ["KH"] }: seat -> the cards of the rows of that seat
VisibleCards(rows) ==
    [s \in {rows[n].seat_number : n \in DOMAIN rows} |->
        LET ofSeat == SelectSeq(rows, LAMBDA row : row.seat_number = s)
        IN [n \in DOMAIN ofSeat |-> ofSeat[n].visible_card]]

\* GET /rooms/:roomId/game-states/:gameStateId/indian-poker-cards is not part
\* of the sources at hand; its answers are those of the integration test
\* (indianPokerVisibility.test.ts 40-162): 401 without authentication, 403
\* for a spectator, for a seat parameter that is not the caller's seat and
\* for a caller without a hand in the game state, else the result of the
\* function by seat.  The answers the route can give to the player `user`;
\* the test has no caller without a player row, and none is modelled.
IndianPokerCards(user, seat, gameStateId) ==
    IF user = NoUser THEN {Answer(401, "Unauthorized", [error |-> "Unauthorized"])}
    ELSE LET player == room_players[user] IN
         IF IsSpectating(player) \/ ~SeatMatches(seat, player)
               \/ ~HoldsHand(gameStateId, player.seat_number)
         THEN {Answer(403, "Forbidden", [error |-> "Forbidden"])}
         ELSE {IF result.raised
               THEN Answer(400, WrongMode, [error |-> WrongMode])
               ELSE Answer(200, "", [visibleCards |-> VisibleCards(result.rows)]) :
                  result \in get_indian_poker_visible_cards(gameStateId,
                                                            player.seat_number)}

GetIndianPokerCards(user, seat, gameStateId) ==
    /\ user = NoUser \/ user \in DOMAIN room_players
    /\ \E answer \in IndianPokerCards(user, seat, gameStateId) :
          /\ response' = [status |-> answer.status, error |-> answer.error]
          /\ body' = answer.body
    /\ UNCHANGED <<rooms, room_players, game_states, game_state_secrets,
                   player_hands, player_actions, hand_results, evaluated>>

\* a room of either mode whose players joined with the smallest buy-in, some
\* of them spectating
InitVisible ==
    /\ \E mode \in GameModes : rooms = Merge(NewRoom, [game_mode |-> mode])
    /\ \E seated \in Tables :
         \E spectating \in [seated -> BOOLEAN] :
            room_players = [i \in {PlayerId(s) : s \in seated} |->
                               Merge(NewPlayer(i - 10, MinBuyIn),
                                     [is_spectating |-> spectating[i - 10]])]
    /\ game_states = <<>>
    /\ game_state_secrets = <<>>
    /\ player_hands = <<>>
    /\ hand_results = <<>>
    /\ InitRequests

NextVisible ==
    \/ JoinCalls(Serial, SeatNumbers, {MinBuyIn})
    \/ /\ rooms.current_hand_number < LobbyHands
       /\ \E r \in Serial : ReceiveStartHand(r)
       /\ Succeeds
    \/ DealCalls(Serial, DeckSeeds)
    \/ /\ \E user \in Users, seat \in SeatParams, gameStateId \in GameStateIds :
             GetIndianPokerCards(user, seat, gameStateId)
       /\ UNCHANGED <<inflight, failures, received, keyed, hook, sequence>>
    \/ /\ \E gameStateId \in GameStateIds, seat \in SeatNumbers :
             CallVisibleCardsFunction(gameStateId, seat)
       /\ UNCHANGED <<inflight, failures, received, keyed, hook, sequence>>

SpecVisible == InitVisible /\ [][NextVisible]_vars

----------------------------------------------------------------------------
(* Room administration: POST /rooms (lines 67-101) creates the room, the      *)
(* owner pauses and resumes it, and hands are dealt through the engine's      *)
(* start-hand route or through the web application's POST                     *)
(* /api/game/deal-hand.  The model follows one room from before it exists.    *)

RoomHands == 1

\* the auth user named as owner in the create-room request
RoomOwner == 50
\* ownerAuthUserId: z.string().uuid().nullable().optional()
OwnerIds == {NoUser, RoomOwner}
\* callers of the deal-hand route
Callers == {NoUser, RoomOwner, Outsider}

\* blind sizes and buy-in limits a create-room request may carry
BlindSizes == 0..2
BuyInLimits == {0, MinBuyIn, MaxBuyIn}

\* bodies of create-room requests
RoomPayloads ==
    [smallBlind : BlindSizes, bigBlind : BlindSizes,
     minBuyIn : BuyInLimits, maxBuyIn : BuyInLimits,
     ownerAuthUserId : OwnerIds]

\* z.number().int().positive() on the four sizes
createRoomSchema(payload) ==
    /\ payload.smallBlind > 0
    /\ payload.bigBlind > 0
    /\ payload.minBuyIn > 0
    /\ payload.maxBuyIn > 0

\* equal blinds let through
BlindsInOrderOrEqual(payload) == ~(payload.bigBlind < payload.smallBlind)

\* the negation of payload.bigBlind <= payload.smallBlind
BlindsInOrder(payload) == ~(payload.bigBlind <= payload.smallBlind)

\* the negation of payload.maxBuyIn < payload.minBuyIn
BuyInsInOrder(payload) == ~(payload.maxBuyIn < payload.minBuyIn)

\* the row inserted into rooms; the remaining columns take their defaults
RoomRow(payload) ==
    Merge(NewRoom,
          [small_blind |-> payload.smallBlind, big_blind |-> payload.bigBlind,
           min_buy_in |-> payload.minBuyIn, max_buy_in |-> payload.maxBuyIn,
           owner_auth_user_id |-> payload.ownerAuthUserId])

\* res.status(status).json({ error })
Reply(status, err) ==
    /\ response' = [status |-> status, error |-> err]
    /\ body' = [error |-> err]

\* what POST /rooms answers to a payload without storing a room
CreateRoomRefusal(payload) ==
    IF ~createRoomSchema(payload) THEN ZodError
    ELSE IF ~BlindsInOrder(payload) THEN "bigBlind must be greater than smallBlind"
    ELSE IF ~BuyInsInOrder(payload) THEN "maxBuyIn must be >= minBuyIn"
    ELSE NoError

\* POST /rooms.  Every accepted request inserts a row of its own; the model
\* keeps the first one and leaves later rooms aside.
CreateRoom(payload) ==
    /\ IF CreateRoomRefusal(payload) # NoError
       THEN /\ Reply(400, CreateRoomRefusal(payload))
            /\ UNCHANGED rooms
       ELSE /\ rooms = NoRoom
            /\ rooms' = RoomRow(payload)
            /\ response' = [status |-> 201, error |-> ""]
            /\ body' = [room |-> RoomRow(payload)]
    /\ UNCHANGED <<room_players, game_states, game_state_secrets, player_hands,
                   player_actions, hand_results, evaluated>>

\* the owner sets or clears rooms.is_paused
SetPaused(flag) ==
    /\ rooms # NoRoom
    /\ rooms.is_paused # flag
    /\ rooms' = [rooms EXCEPT !.is_paused = flag]
    /\ UNCHANGED <<room_players, game_states, game_state_secrets, player_hands,
                   player_actions, hand_results, evaluated, response, body>>

\* the room is closed or reopened: rooms.is_active
SetActive(flag) ==
    /\ rooms # NoRoom
    /\ rooms.is_active # flag
    /\ rooms' = [rooms EXCEPT !.is_active = flag]
    /\ UNCHANGED <<room_players, game_states, game_state_secrets, player_hands,
                   player_actions, hand_results, evaluated, response, body>>

\* if (room.is_paused)
GamePaused(room) == room.is_paused

\* what request.json() and dealHandSchema.parse make of the body of a
\* deal-hand request (part_004 12-16): "unreadable" is a body that is not
\* JSON, for which request.json() rejects, or the JSON value null, for which
\* Object.keys(body) throws a TypeError; "invalid" is a body that is read and
\* that dealHandSchema.parse refuses with a ZodError; "valid" is one it
\* accepts
DealBodies == {"unreadable", "invalid", "valid"}

\* POST /api/game/deal-hand (part_004 8-78).  Everything runs inside one try.
\* The body is read and its keys are listed first (12-13): what is thrown
\* there is not a ZodError and is answered 500 "Internal server error" by the
\* catch (72-76), whoever calls and whatever the room.  A ZodError of
\* dealHandSchema.parse reaches the catch and is answered 400 with its
\* message (16, 65-70).  Then getAuthUser (18-22), then getServiceClient (24),
\* which throws when the service credentials are missing from the
\* environment (88-90): serviceKey says whether this call finds them, and
\* the throw is answered 500.  Then the select of owner_auth_user_id and
\* is_paused from rooms, answered 404 when it fails or finds no row (27-36),
\* the owner check (39-49) and the pause check (52-58).  The route reads no
\* other column of the room: is_active is not looked at.
\* dealHandLogic(roomId, userId) (61) is not part of the sources at hand.  It
\* either goes on to deal, which is taken to be done with the store calls of
\* the engine's start-hand handler, or throws, and whatever it throws that is
\* not a ZodError is answered 500 "Internal server error" (72-76).
DealHandRoute(r, user, requestBody, serviceKey) ==
    /\ FreeSlot(r)
    /\ IF requestBody = "unreadable"
       THEN /\ Respond(r, 500, "Internal server error",
                       [error |-> "Internal server error"])
            /\ UNCHANGED failures
       ELSE IF requestBody = "invalid"
       THEN /\ Respond(r, 400, ZodError, [error |-> ZodError])
            /\ UNCHANGED failures
       ELSE IF user = NoUser
       THEN /\ Respond(r, 401, "Unauthorized", [error |-> "Unauthorized"])
            /\ UNCHANGED failures
       ELSE IF ~serviceKey
       THEN /\ Respond(r, 500, "Internal server error",
                       [error |-> "Internal server error"])
            /\ UNCHANGED failures
       ELSE \/ /\ IF rooms = NoRoom
                  THEN Respond(r, 404, "Room not found", [error |-> "Room not found"])
                  ELSE IF rooms.owner_auth_user_id # user
                  THEN Respond(r, 403, "Only the room owner can start the hand",
                               [error |-> "Only the room owner can start the hand"])
                  ELSE IF GamePaused(rooms)
                  THEN Respond(r, 400, "Game is paused. Unpause to deal the next hand.",
                               [error |-> "Game is paused. Unpause to deal the next hand."])
                  ELSE \/ /\ inflight' = [inflight EXCEPT ![r] = DealRequest(rooms, TRUE)]
                          /\ UNCHANGED <<response, body>>
                       \/ Respond(r, 500, "Internal server error",
                                  [error |-> "Internal server error"])
               /\ UNCHANGED failures
            \/ /\ StoreFails
               /\ Respond(r, 404, "Room not found", [error |-> "Room not found"])
    /\ UNCHANGED <<rooms, room_players, game_states, game_state_secrets,
                   player_hands, player_actions, hand_results, evaluated,
                   sequence>>

InitRooms ==
    /\ rooms = NoRoom
    /\ room_players = <<>>
    /\ game_states = <<>>
    /\ game_state_secrets = <<>>
    /\ player_hands = <<>>
    /\ hand_results = <<>>
    /\ InitRequests

\* hands are dealt for as long as the room has been dealt fewer than RoomHands
MayDeal == IF rooms = NoRoom THEN TRUE ELSE rooms.current_hand_number < RoomHands

\* one room is followed: create-room requests are sent until it exists.
\* Requests are handled one at a time; the room is paused, resumed, closed
\* or reopened at any moment, between the store calls of a request too
NextRooms ==
    \/ /\ rooms = NoRoom
       /\ \E payload \in RoomPayloads : CreateRoom(payload)
       /\ UNCHANGED <<inflight, failures, received, keyed, hook, sequence>>
    \/ JoinCalls(Serial, SeatNumbers, JoinBuyIns)
    \/ /\ \E flag \in BOOLEAN : SetPaused(flag)
       /\ UNCHANGED <<inflight, failures, received, keyed, hook, sequence>>
    \/ /\ \E flag \in BOOLEAN : SetActive(flag)
       /\ UNCHANGED <<inflight, failures, received, keyed, hook, sequence>>
    \/ /\ MayDeal
       /\ \E r \in Serial : ReceiveStartHand(r)
       /\ Succeeds
    \/ /\ MayDeal
       /\ \E r \in Serial, user \in Callers, requestBody \in DealBodies,
             serviceKey \in BOOLEAN :
             DealHandRoute(r, user, requestBody, serviceKey)
       /\ Succeeds
    \/ DealCalls(Serial, DeckSeeds \cup {NoSeed})

SpecRooms == InitRooms /\ [][NextRooms]_vars

----------------------------------------------------------------------------
(* The visible-cards hook of the web application                              *)
(* (apps/web/src/lib/hooks/useIndianPokerVisibleCards.ts), in its two         *)
(* versions: the one that names the seat in the query (lines 12-92) and the   *)
(* one that sends an access token and can be disabled (lines 105-184).  The   *)
(* effect runs after the mount and after every change of a dependency; it     *)
(* returns no cleanup function.  A fetch that has been started is a request   *)
(* in flight until its answer arrives.                                        *)

HookVariants == {"seat", "token"}

\* a parameter that is null
Null == -1
HookRoomIds == {Null, 1}
HookGameStateIds == {Null, 1, 2}
\* mySeatNumber, or the accessToken of the player at that seat
HookCredentials == {Null, 0, 1}

\* visibleCards === null
NoCards == [none |-> TRUE]

\* data.visibleCards of the answer to GET
\* /rooms/:roomId/game-states/:gameStateId/indian-poker-cards for a caller
VisibleCardsOf(roomId, gameStateId, credential) ==
    [roomId |-> roomId, gameStateId |-> gameStateId, credential |-> credential]

\* the message of a failed fetch
FetchFailed == "Failed to fetch visible cards"

\* the hook of a component that has just been rendered for the first time
\* with these arguments: useState(null), useState(false), useState(null),
\* and the effect still to run
Mounted(variant, roomId, gameStateId, credential, enabled) ==
    [mounted |-> TRUE, variant |-> variant, roomId |-> roomId,
     gameStateId |-> gameStateId, credential |-> credential,
     enabled |-> enabled, effectPending |-> TRUE,
     visibleCards |-> NoCards, loading |-> FALSE, error |-> NoError]

\* !roomId || !gameStateId || mySeatNumber === null, or
\* !enabled || !roomId || !gameStateId || !accessToken
MissingParam(h) ==
    \/ ~h.enabled
    \/ h.roomId = Null
    \/ h.gameStateId = Null
    \/ h.credential = Null

\* the seat version has no enabled argument
Arguments(variant, enabled) == variant = "token" \/ enabled

\* the component is rendered for the first time; the effect has not run
Mount(variant, roomId, gameStateId, credential, enabled) ==
    /\ hook = Unmounted
    /\ Arguments(variant, enabled)
    /\ hook' = Mounted(variant, roomId, gameStateId, credential, enabled)
    /\ UNCHANGED <<rooms, room_players, game_states, game_state_secrets,
                   player_hands, player_actions, hand_results, response,
                   evaluated, body, inflight, failures, received, keyed,
                   sequence>>

\* the component is rendered with other arguments: a dependency changed, so
\* the effect is to run again; the state of the hook is what it was.  The
\* effect of a render has run before the component is rendered again.
Rerender(roomId, gameStateId, credential, enabled) ==
    /\ hook # Unmounted
    /\ ~hook.effectPending
    /\ Arguments(hook.variant, enabled)
    /\ <<roomId, gameStateId, credential, enabled>>
          # <<hook.roomId, hook.gameStateId, hook.credential, hook.enabled>>
    /\ hook' = [hook EXCEPT !.roomId = roomId, !.gameStateId = gameStateId,
                            !.credential = credential, !.enabled = enabled,
                            !.effectPending = TRUE]
    /\ UNCHANGED <<rooms, room_players, game_states, game_state_secrets,
                   player_hands, player_actions, hand_results, response,
                   evaluated, body, inflight, failures, received, keyed,
                   sequence>>

\* the body of useEffect runs after the render: clear the cards when a
\* parameter is missing, else setLoading(true), setError(null) and start the
\* fetch
Effect ==
    /\ hook # Unmounted
    /\ hook.effectPending
    /\ IF MissingParam(hook)
       THEN /\ hook' = [hook EXCEPT !.visibleCards = NoCards, !.loading = FALSE,
                                    !.effectPending = FALSE]
            /\ UNCHANGED inflight
       ELSE \E r \in Slots :
               /\ inflight[r] = Idle
               /\ inflight' = [inflight EXCEPT ![r] =
                                  [kind |-> "fetch", roomId |-> hook.roomId,
                                   gameStateId |-> hook.gameStateId,
                                   credential |-> hook.credential]]
               /\ hook' = [hook EXCEPT !.loading = TRUE, !.error = NoError,
                                       !.effectPending = FALSE]
    /\ UNCHANGED <<rooms, room_players, game_states, game_state_secrets,
                   player_hands, player_actions, hand_results, response,
                   evaluated, body, failures, received, keyed, sequence>>

\* the answer of a fetch arrives with response.ok:
\* setVisibleCards(data.visibleCards), then setLoading(false)
FetchSucceeds(r) ==
    /\ inflight[r].kind = "fetch"
    /\ hook' = [hook EXCEPT
                   !.visibleCards = VisibleCardsOf(inflight[r].roomId,
                                                   inflight[r].gameStateId,
                                                   inflight[r].credential),
                   !.loading = FALSE]
    /\ inflight' = [inflight EXCEPT ![r] = Idle]
    /\ UNCHANGED <<rooms, room_players, game_states, game_state_secrets,
                   player_hands, player_actions, hand_results, response,
                   evaluated, body, failures, received, keyed, sequence>>

\* the fetch throws or is answered with an error status:
\* setError(message), setVisibleCards(null), then setLoading(false)
FetchFails(r) ==
    /\ inflight[r].kind = "fetch"
    /\ hook' = [hook EXCEPT !.error = FetchFailed, !.visibleCards = NoCards,
                            !.loading = FALSE]
    /\ inflight' = [inflight EXCEPT ![r] = Idle]
    /\ UNCHANGED <<rooms, room_players, game_states, game_state_secrets,
                   player_hands, player_actions, hand_results, response,
                   evaluated, body, failures, received, keyed, sequence>>

InitHook ==
    /\ InitStore({}, <<>>)
    /\ InitRequests

NextHook ==
    \/ \E variant \in HookVariants, roomId \in HookRoomIds,
          gameStateId \in HookGameStateIds, credential \in HookCredentials,
          enabled \in BOOLEAN :
          Mount(variant, roomId, gameStateId, credential, enabled)
    \/ \E roomId \in HookRoomIds, gameStateId \in HookGameStateIds,
          credential \in HookCredentials, enabled \in BOOLEAN :
          Rerender(roomId, gameStateId, credential, enabled)
    \/ Effect
    \/ \E r \in Slots : FetchSucceeds(r)
    \/ \E r \in Slots : FetchFails(r)

SpecHook == InitHook /\ [][NextHook]_vars
----------------------------------------------------------------------------
(* Properties *)

\* the hand the actions endpoint works on
Latest == CHOOSE g \in fetchLatestGameState(game_states) : TRUE
HandActive == Latest # NoGameState

\* the latest hand is the one the room was last dealt, so the player rows
\* are the rows of this hand
OnCurrentHand == HandActive /\ Latest.hand_number = rooms.current_hand_number

ChipsInStacks(players) ==
    SumOver([i \in DOMAIN players |-> players[i].chip_stack], DOMAIN players)

PlayerAtSeat(players, seat) ==
    CHOOSE p \in {players[i] : i \in DOMAIN players} : p.seat_number = seat

LastOf(seq) == seq[Len(seq)]

\* where one request is handled at a time: the request in the handler, with
\* the rows it has read, and the states in which the next one can arrive
Request == inflight[1]
Quiet == Request.kind = "idle"

\* the hand the request has read
Read == Request.gameState

\* this step answers the request
Answers(kind) == Request.kind = kind /\ inflight'[1].kind = "idle"

\* this step wrote the player_actions row of an accepted / a rejected action
AcceptedStep ==
    /\ At(1, "action", "insertPlayerAction")
    /\ player_actions' # <<>>
    /\ player_actions'[1].processed
RejectedStep ==
    /\ At(1, "action", "insertPlayerAction")
    /\ player_actions' # <<>>
    /\ ~player_actions'[1].processed

\* the request was for the hand the room was last dealt
ReadCurrentHand ==
    Request.gameState.hand_number = Request.room.current_hand_number

\* this step answers an accepted action after which the hand goes on
ContinuingStep ==
    /\ At(1, "action", "updateGameState")
    /\ Answers("action")
    /\ ReadCurrentHand
\* this step answers an accepted action that completed the hand
CompletingStep ==
    /\ At(1, "action", "deleteGameState")
    /\ Answers("action")
    /\ ReadCurrentHand
\* this step answers a start-hand request with the hand it dealt
DealStep == At(1, "deal", "updateRoom")

\* C1: within a hand the chips in all stacks plus the pot stay constant: the
\* deal moves the forced bets from the stacks into the pot, every accepted
\* action that leaves the hand running moves chips from a stack into the pot,
\* and a rejected action moves nothing.
C1_ChipConservation ==
    [][ /\ DealStep =>
             ChipsInStacks(room_players') + Latest'.pot_size
                = ChipsInStacks(Request.players)
        /\ ContinuingStep =>
             ChipsInStacks(room_players') + Latest'.pot_size
                = ChipsInStacks(Request.players) + Request.gameState.pot_size
        /\ RejectedStep =>
             /\ HandActive'
             /\ ChipsInStacks(room_players') + Latest'.pot_size
                   = ChipsInStacks(Request.players) + Request.gameState.pot_size
      ]_vars

\* a hand on the flop or later in which somebody raised before the flop
C1_Witness ==
    /\ Quiet
    /\ HandActive
    /\ Latest.phase \in {"flop", "turn"}
    /\ \E i \in DOMAIN Latest.action_history :
          Latest.action_history[i].action_type = "raise"
    /\ Latest.pot_size > 4

\* C2: when an action completes a hand whose final pot is P, the stacks grow
\* through the payout by exactly P in total: the chips of the pot before the
\* action plus the chips the action itself put in.
C2_PayoutConservation ==
    [][ /\ At(1, "action", "insertHandResult") =>
             Len(hand_results') = Len(hand_results) + 1
        /\ CompletingStep =>
             /\ ChipsInStacks(room_players')
                   = ChipsInStacks(Request.players) + Request.gameState.pot_size
             /\ PaysOut(Request.outcome) =>
                   LET result == LastOf(hand_results')
                       wagered == LastOf(result.action_history).amount
                       P == result.final_pot
                   IN /\ P = Request.gameState.pot_size + wagered
                      /\ ChipsInStacks(room_players')
                            - (ChipsInStacks(Request.players) - wagered) = P
             /\ ~PaysOut(Request.outcome) =>
                   /\ hand_results' = hand_results
                   /\ ChipsInStacks(room_players') = ChipsInStacks(Request.players)
      ]_vars

\* a showdown over an odd pot in which one seat won a board alone and tied
\* on the other, the completing action having put chips in
C2_Witness ==
    /\ Quiet
    /\ evaluated # <<>>
    /\ hand_results # <<>>
    /\ LastOf(hand_results).final_pot % 2 = 1
    /\ LastOf(LastOf(hand_results).action_history).amount > 0
    /\ Len(evaluated[1].board1Winners) = 1
    /\ Len(evaluated[1].board2Winners) = 2
    /\ evaluated[1].board1Winners[1] \in Range(evaluated[1].board2Winners)

\* what applyAction returns for a request in the present state
RequestOutcome(seat, actionType, amount) ==
    LET secret == fetchGameStateSecret(game_state_secrets, Latest.id)
    IN applyAction([room |-> rooms, players |-> PlayersBySeatNumber,
                    gameState |-> Latest,
                    fullBoard1 |-> secret.full_board1,
                    fullBoard2 |-> secret.full_board2],
                   seat, actionType, amount)

TablesUnchanged ==
    UNCHANGED <<rooms, room_players, game_states, game_state_secrets,
                player_hands, hand_results>>

\* whenever a request can arrive while a hand is on, once somebody has
\* acted, the current actor is the next non-folded, non-all-in seat clockwise
\* from the last actor, and every request for another seat is refused as
\* OutOfTurn
C3_OutOfTurnRefused ==
    (Quiet /\ OnCurrentHand) =>
       LET bySeat == BySeat(PlayersBySeatNumber)
           history == Latest.action_history
       IN /\ history # <<>> =>
               /\ Latest.current_actor_seat \in Eligible(bySeat)
               /\ Latest.current_actor_seat =
                     NextSeatIn(Eligible(bySeat), LastOf(history).seat_number)
          /\ \A seat \in RequestSeats \ {Latest.current_actor_seat} :
               \A actionType \in ActionTypes :
                  \A amount \in Amounts(actionType) :
                     RequestOutcome(seat, actionType, amount) = Rejected("OutOfTurn")

\* C3: an action submitted for any seat other than the current actor (the
\* next non-folded, non-all-in seat clockwise from the last actor) is
\* rejected with OutOfTurn, whatever its type and amount, and the request
\* refused as OutOfTurn is answered 400 and changes no stack, wager, pot,
\* street or history.
C3_TurnOrder ==
    /\ []C3_OutOfTurnRefused
    /\ [][ (RejectedStep /\ player_actions'[1].error_message = "OutOfTurn")
             => /\ response' = [status |-> 400, error |-> "OutOfTurn"]
                /\ Answers("action")
                /\ TablesUnchanged
         ]_vars

\* a request out of turn was just refused on the flop of a three-seat hand
C3_Witness ==
    /\ Quiet
    /\ OnCurrentHand
    /\ Latest.phase = "flop"
    /\ Cardinality(DOMAIN room_players) = 3
    /\ response = [status |-> 400, error |-> "OutOfTurn"]
    /\ player_actions # <<>>
    /\ ~player_actions[1].processed

\* C4: when applyAction returns an error the request is answered 400 with
\* that error, no room_players row and no game_states row is written or
\* deleted, no hand result is recorded, and the only write is one
\* player_actions row marked unprocessed that carries the error message.
C4_RejectedActionUnchanged ==
    [][ /\ (RejectedStep
               \/ (Answers("action")
                     /\ response'.error \in {"OutOfTurn", "IllegalAction"}))
             => /\ RejectedStep
                /\ Answers("action")
                /\ response'.status = 400
                /\ response'.error \in {"OutOfTurn", "IllegalAction"}
                /\ player_actions' = <<[game_state_id |-> Read.id,
                                        processed |-> FALSE,
                                        error_message |-> response'.error]>>
                /\ TablesUnchanged
        /\ (Request.kind = "action"
               /\ Request.pc \in {"fetchGameState", "fetchSecret", "fetchPlayers"})
             => /\ TablesUnchanged
                /\ UNCHANGED player_actions
      ]_vars

\* an illegal action of the seat in turn was just refused while chips were
\* at stake on a later street
C4_Witness ==
    /\ Quiet
    /\ OnCurrentHand
    /\ Latest.phase = "turn"
    /\ Latest.current_bet > 0
    /\ response = [status |-> 400, error |-> "IllegalAction"]
    /\ player_actions = <<[game_state_id |-> Latest.id, processed |-> FALSE,
                           error_message |-> "IllegalAction"]>>

----------------------------------------------------------------------------
(* Steps of the betting round *)

RowsBySeat == BySeat(PlayersBySeatNumber)

\* the rows the request has read, by seat
ReadRows == BySeat(Request.players)

\* this step answers an accepted action
AcceptedAnswer ==
    /\ Answers("action")
    /\ response'.status = 200
    /\ ReadCurrentHand

\* the row of a seat after the request, and the seats then not folded and
\* those still able to act
RowAfter(s) == room_players'[PlayerId(s)]
NonFoldedAfter == {s \in DOMAIN ReadRows : ~RowAfter(s).has_folded}
EligibleAfter == {s \in NonFoldedAfter : ~RowAfter(s).is_all_in}

\* the action history after an accepted action of the hand
StepHistory ==
    IF Read.id \in DOMAIN game_states'
    THEN game_states'[Read.id].action_history
    ELSE LastOf(hand_results').action_history
\* the entry of the action just accepted
StepEntry == LastOf(StepHistory)

\* the street wager of a seat with the accepted action applied, before any reset
WagerAfter(s) ==
    ReadRows[s].current_bet
       + (IF s = StepEntry.seat_number THEN StepEntry.amount ELSE 0)

StreetAdvances == Latest'.phase = NextPhase(Read.phase)

\* the seat holding this blind as its street wager
BlindSeat(blind) ==
    CHOOSE s \in DOMAIN ReadRows : ReadRows[s].current_bet = blind

\* two seats, blinds posted, nobody all-in, nothing done yet
HeadsUpBlindsPosted(gameState, rows) ==
    /\ gameState.phase = "preflop"
    /\ gameState.action_history = <<>>
    /\ Cardinality(DOMAIN rows) = 2
    /\ Eligible(rows) = DOMAIN rows
    /\ {rows[s].current_bet : s \in DOMAIN rows}
          = {rooms.small_blind, rooms.big_blind}

\* two seats, the small blind has called, nobody all-in
HeadsUpSmallBlindCalled(gameState, rows) ==
    /\ gameState.phase = "preflop"
    /\ Len(gameState.action_history) = 1
    /\ gameState.action_history[1].action_type = "call"
    /\ Cardinality(DOMAIN rows) = 2
    /\ Eligible(rows) = DOMAIN rows
    /\ \A s \in DOMAIN rows : rows[s].current_bet = rooms.big_blind

\* C6: heads-up with blinds sb/bb posted, the hand is still on preflop
\* after the small blind calls and the big blind is in turn; after the big
\* blind then checks the street is flop, the pot is 2*bb, and the bet-to-call
\* and both seats' street wagers are 0.
C6_HeadsUpPreflop ==
    [][ /\ (AcceptedAnswer /\ HeadsUpBlindsPosted(Read, ReadRows)
              /\ Request.actionType = "call") =>
             /\ Request.seat = BlindSeat(rooms.small_blind)
             /\ HandActive' /\ Latest'.id = Read.id
             /\ StepEntry.action_type = "call"
             /\ StepEntry.seat_number = Request.seat
             /\ Latest'.phase = "preflop"
             /\ Latest'.current_actor_seat = BlindSeat(rooms.big_blind)
             /\ Latest'.pot_size = 2 * rooms.big_blind
             /\ \A s \in DOMAIN ReadRows :
                   RowAfter(s).current_bet = rooms.big_blind
        /\ (AcceptedAnswer /\ HeadsUpSmallBlindCalled(Read, ReadRows)
              /\ Request.actionType = "check") =>
             /\ HandActive' /\ Latest'.id = Read.id
             /\ StepEntry.action_type = "check"
             /\ Latest'.phase = "flop"
             /\ Latest'.pot_size = 2 * rooms.big_blind
             /\ Latest'.current_bet = 0
             /\ \A s \in DOMAIN ReadRows : RowAfter(s).current_bet = 0
      ]_vars

\* heads-up on the flop after the small blind called and the big blind checked
C6_Witness ==
    /\ Quiet
    /\ OnCurrentHand
    /\ Cardinality(DOMAIN RowsBySeat) = 2
    /\ Latest.phase = "flop"
    /\ Len(Latest.action_history) = 2
    /\ Latest.action_history[1].action_type = "call"
    /\ Latest.action_history[2].action_type = "check"
    /\ Latest.pot_size = 4
    /\ Latest.current_bet = 0

(* Short all-in *)

\* the accepted action is an all-in above the bet-to-call by less than the
\* minimum raise
ShortAllInStep ==
    /\ ContinuingStep
    /\ StepEntry.action_type = "all_in"
    /\ WagerAfter(StepEntry.seat_number) > Read.current_bet
    /\ WagerAfter(StepEntry.seat_number) < Read.current_bet + Read.min_raise

\* the accepted action raises the bet-to-call by at least the minimum raise
FullRaiseStep ==
    WagerAfter(StepEntry.seat_number) - Read.current_bet >= Read.min_raise

\* seats still in the betting that have acted on the street and have matched
\* the bet-to-call
AlreadyCalled ==
    {s \in Eligible(ReadRows) :
        /\ ReadRows[s].current_bet = Read.current_bet
        /\ \E i \in DOMAIN Read.action_history :
              /\ Read.action_history[i].seat_number = s
              /\ Read.action_history[i].phase = Read.phase}

\* when a request can arrive, a seat in turn for which the action was not reopened may only fold or
\* call the difference: every bet, raise and all-in for more is refused
ClosedActorRestricted ==
    (Quiet /\ OnCurrentHand /\ Latest.current_actor_seat \in Latest.seats_closed) =>
       LET a == Latest.current_actor_seat
           p == RowsBySeat[a]
           gap == Latest.current_bet - p.current_bet
       IN /\ gap > 0
          /\ \A actionType \in {"bet", "raise"} :
                \A amount \in Amounts(actionType) :
                   RequestOutcome(a, actionType, amount) = Rejected("IllegalAction")
          /\ p.chip_stack > gap =>
                RequestOutcome(a, "all_in", NoAmount) = Rejected("IllegalAction")
          /\ RequestOutcome(a, "check", NoAmount) = Rejected("IllegalAction")
          /\ RequestOutcome(a, "fold", NoAmount).error = NoError
          /\ LET called == RequestOutcome(a, "call", NoAmount)
             IN /\ called.error = NoError
                /\ called.updatedPlayers[1].current_bet =
                      p.current_bet + Min({gap, p.chip_stack})

\* C7: after an all-in below the legal minimum raise over the bet-to-call,
\* every seat that had already called the smaller bet-to-call stays closed on
\* that street until a full raise by another seat, and a closed seat in turn
\* may only fold or call the difference: its bet or raise is rejected.
C7_ShortAllInNoReopen ==
    /\ []ClosedActorRestricted
    /\ [][ /\ ShortAllInStep =>
                /\ Latest'.phase = Read.phase
                /\ (AlreadyCalled \ {StepEntry.seat_number}) \subseteq Latest'.seats_closed
           /\ (ContinuingStep /\ Latest'.phase = Read.phase /\ ~FullRaiseStep) =>
                Read.seats_closed \subseteq Latest'.seats_closed
         ]_vars

\* after a short all-in on the street the seat that had called before it is
\* in turn with chips behind, and its raise was just refused
C7_Witness ==
    /\ Quiet
    /\ OnCurrentHand
    /\ Latest.current_actor_seat \in Latest.seats_closed
    /\ LET p == RowsBySeat[Latest.current_actor_seat]
       IN /\ p.chip_stack > Latest.current_bet - p.current_bet
          /\ \E i \in DOMAIN Latest.action_history :
                /\ Latest.action_history[i].seat_number = p.seat_number
                /\ Latest.action_history[i].action_type = "call"
                /\ Latest.action_history[i].phase = Latest.phase
    /\ \E i \in DOMAIN Latest.action_history :
          /\ Latest.action_history[i].action_type = "all_in"
          /\ Latest.action_history[i].phase = Latest.phase
    /\ response = [status |-> 400, error |-> "IllegalAction"]

----------------------------------------------------------------------------
(* Payout *)

\* what a seat has put into the pot over the hand, the accepted action included
FinalContribution(s) ==
    Read.contributions[s]
       + (IF s = StepEntry.seat_number THEN StepEntry.amount ELSE 0)

\* the chips credited to a seat by the payout of the completing step
Credit(s) ==
    RowAfter(s).chip_stack
       - (ReadRows[s].chip_stack
            - (IF s = StepEntry.seat_number THEN StepEntry.amount ELSE 0))

\* the part of the pot funded at or below the contribution of seat s
FundedUpTo(s) ==
    SumOver([t \in DOMAIN ReadRows |->
                Min({FinalContribution(t), FinalContribution(s)})],
            DOMAIN ReadRows)

\* C8: a seat that went all-in for a total contribution X is awarded at most
\* the sum over all seats of min(contribution, X), and a folded seat is
\* awarded nothing.
C8_SidePotEligibility ==
    [][ CompletingStep =>
          \A s \in DOMAIN ReadRows :
             /\ RowAfter(s).is_all_in => Credit(s) <= FundedUpTo(s)
             /\ RowAfter(s).has_folded => Credit(s) = 0
      ]_vars

\* a hand just paid out in which an all-in seat holds more chips than all
\* seats put in at or below its contribution
C8_Witness ==
    /\ Quiet
    /\ hand_results # <<>>
    /\ ~HandActive
    /\ Cardinality(DOMAIN RowsBySeat) = 3
    /\ \E s \in DOMAIN RowsBySeat :
          /\ RowsBySeat[s].is_all_in
          /\ RowsBySeat[s].total_buy_in = MinBuyIn
          /\ RowsBySeat[s].chip_stack = LastOf(hand_results).final_pot
          /\ \A t \in DOMAIN RowsBySeat \ {s} :
                /\ ~RowsBySeat[t].has_folded
                /\ RowsBySeat[t].total_buy_in > MinBuyIn
                /\ RowsBySeat[t].chip_stack = 0

\* the share of one board's part of the pot that a seat may be credited
BoardShares(s, winners, part) ==
    IF s \in Range(winners)
    THEN {part \div Len(winners), (part + Len(winners) - 1) \div Len(winners)}
    ELSE {0}

\* C9: with an even pot P, board-1 winner set {A} and board-2 winner set
\* {B}, the payout credits P/2 to A and P/2 to B; the pot is split 50/50
\* between the boards, each board's part is split evenly among that board's
\* winners (differences only by odd chips), and no seat outside the two
\* winner sets is credited anything.
C9_DoubleBoardSplit ==
    [][ (CompletingStep /\ evaluated' # <<>>
           /\ evaluated'[1].board1Winners # <<>>
           /\ evaluated'[1].board2Winners # <<>>) =>
          LET b1 == evaluated'[1].board1Winners
              b2 == evaluated'[1].board2Winners
              P == LastOf(hand_results').final_pot
              seats == DOMAIN ReadRows
              credit == [s \in seats |-> Credit(s)]
          IN /\ \A s \in seats \ (Range(b1) \cup Range(b2)) : credit[s] = 0
             /\ (P % 2 = 0 /\ Len(b1) = 1 /\ Len(b2) = 1) =>
                   IF b1[1] = b2[1] THEN credit[b1[1]] = P
                   ELSE credit[b1[1]] = P \div 2 /\ credit[b2[1]] = P \div 2
             /\ \E part1 \in {P \div 2, P - (P \div 2)} :
                   \A s \in seats :
                      \E x1 \in BoardShares(s, b1, part1) :
                         \E x2 \in BoardShares(s, b2, P - part1) :
                            credit[s] = x1 + x2
      ]_vars

\* a three-way showdown over an even pot, the boards won by two different
\* seats, each paid half the pot, the third seat paid nothing
C9_Witness ==
    /\ Quiet
    /\ evaluated # <<>>
    /\ hand_results # <<>>
    /\ ~HandActive
    /\ Cardinality(DOMAIN RowsBySeat) = 3
    /\ \A s \in DOMAIN RowsBySeat : ~RowsBySeat[s].has_folded
    /\ LastOf(hand_results).final_pot % 2 = 0
    /\ Len(evaluated[1].board1Winners) = 1
    /\ Len(evaluated[1].board2Winners) = 1
    /\ evaluated[1].board1Winners # evaluated[1].board2Winners
    /\ LastOf(LastOf(hand_results).action_history).phase = "river"

\* the accepted action is a fold that leaves exactly one non-folded seat
FoldOutStep ==
    /\ AcceptedAnswer
    /\ Cardinality(NonFolded(ReadRows)) = 2
    /\ Cardinality(NonFoldedAfter) = 1

\* C10: if an accepted fold leaves exactly one non-folded seat, on any
\* street, the hand completes immediately, that seat is awarded the entire
\* pot, and no showdown evaluation is invoked.
C10_FoldOutShortcut ==
    [][ FoldOutStep =>
          /\ Read.id \notin DOMAIN game_states'
          /\ \A s \in NonFoldedAfter :
                RowAfter(s).chip_stack = ReadRows[s].chip_stack + Read.pot_size
          /\ evaluated' = <<>>
      ]_vars

\* a hand ended by a fold on the flop, the last seat standing holding the
\* pot, with the winners of both boards evaluated
C10_Witness ==
    /\ Quiet
    /\ ~HandActive
    /\ hand_results # <<>>
    /\ Cardinality(NonFolded(RowsBySeat)) = 1
    /\ LastOf(LastOf(hand_results).action_history).action_type = "fold"
    /\ LastOf(LastOf(hand_results).action_history).phase = "flop"
    /\ evaluated # <<>>
    /\ evaluated[1].board1Winners = evaluated[1].board2Winners
    /\ Range(evaluated[1].board1Winners) = NonFolded(RowsBySeat)

----------------------------------------------------------------------------
(* Secret confinement (design document 3, 4.1) *)

\* the boards of a hand-state value show no more cards than its street has dealt
WithinStreet(gs) ==
    /\ Len(gs.board_state.board1) <= Revealed(gs.phase)
    /\ Len(gs.board_state.board2) <= Revealed(gs.phase)

\* C16: no response body of the start-hand or actions endpoints and no
\* player-readable row (game_states, hand_results) contains the deck seed
\* or a community card that the current street has not dealt yet.
C16_SecretConfinement ==
    /\ "deckSeed" \notin DOMAIN body
    /\ "gameState" \in DOMAIN body => WithinStreet(body.gameState)
    /\ \A id \in DOMAIN game_states : WithinStreet(game_states[id])
    /\ \A k \in DOMAIN hand_results :
          /\ Len(hand_results[k].board_a) <= 5
          /\ Len(hand_results[k].board_b) <= 5

\* start-hand has answered 201 and its body carries the seed stored in the
\* secret row of the hand just dealt
C16_Witness ==
    /\ response.status = 201
    /\ HandActive
    /\ Latest.id \in DOMAIN game_state_secrets
    /\ "deckSeed" \in DOMAIN body
    /\ body.deckSeed = game_state_secrets[Latest.id].deck_seed

\* the stored boards of hand-state row `id` are the prefixes of the secret
\* full boards that the row's street has dealt; the row of a hand that has
\* completed, which the handler is about to delete, shows the boards of the
\* street the hand ended on
StreetPrefix(id) ==
    LET gs == game_states[id]
        secret == game_state_secrets[id]
        shown == IF gs.phase = "complete" THEN Len(gs.board_state.board1)
                 ELSE Revealed(gs.phase)
    IN /\ gs.phase \in {"preflop", "flop", "turn", "river", "showdown", "complete"}
       /\ shown \in {0, 3, 4, 5}
       /\ gs.board_state.board1 = SubSeq(secret.full_board1, 1, shown)
       /\ gs.board_state.board2 = SubSeq(secret.full_board2, 1, shown)

\* C17: in every reachable hand state each board's revealed cards are the
\* prefix of that board's secret full board dealt up to the current street,
\* and the hand state holds no card of a later street.  A row whose secret
\* start-hand has not inserted yet shows no card.
C17_RevealedPrefix ==
    \A id \in DOMAIN game_states :
        IF id \in DOMAIN game_state_secrets THEN StreetPrefix(id)
        ELSE /\ game_states[id].phase = "preflop"
             /\ game_states[id].board_state = [board1 |-> <<>>, board2 |-> <<>>]

\* a hand on the turn showing four cards of each board, the river card of
\* the secret boards not among them
C17_Witness ==
    /\ HandActive
    /\ Latest.phase = "turn"
    /\ Len(Latest.board_state.board1) = 4
    /\ Len(Latest.board_state.board2) = 4
    /\ game_state_secrets[Latest.id].full_board1[5] \notin Range(Latest.board_state.board1)
    /\ game_state_secrets[Latest.id].full_board2[5] \notin Range(Latest.board_state.board2)

----------------------------------------------------------------------------
(* Hand lifecycle (design document 3, 5) *)

\* this step answers an accepted action { ok: true } without a hand state,
\* the answer of a completed hand
CompletedStep ==
    /\ Answers("action")
    /\ response'.status = 200
    /\ "gameState" \notin DOMAIN body'

\* this step answers an accepted action with the hand state
ContinuedStep ==
    /\ Answers("action")
    /\ response'.status = 200
    /\ "gameState" \in DOMAIN body'

\* C18: when an action completes a hand, the hand-state row and its secret
\* are both deleted when the request is answered, and from then on every
\* action request is rejected with "No active hand" until a new hand is
\* dealt; while a hand is not complete its hand-state row and secret both
\* exist.
C18_HandLifecycle ==
    /\ [](Quiet => DOMAIN game_states = DOMAIN game_state_secrets)
    /\ [][ /\ CompletedStep =>
                /\ Read.id \notin DOMAIN game_states'
                /\ Read.id \notin DOMAIN game_state_secrets'
                /\ ~HandActive'
           /\ ContinuedStep =>
                /\ Read.id \in DOMAIN game_states'
                /\ Read.id \in DOMAIN game_state_secrets'
           /\ (At(1, "action", "fetchGameState") /\ ~HandActive) =>
                /\ Answers("action")
                /\ response' = [status |-> 400, error |-> "No active hand"]
                /\ TablesUnchanged
      ]_vars

\* the second hand has been completed and answered, its row and secret are
\* gone, and the actions endpoint still finds the first hand, which was in
\* progress when the second was dealt
C18_Witness ==
    /\ rooms.current_hand_number = 2
    /\ response.status = 200
    /\ body = [ok |-> TRUE]
    /\ 2 \notin DOMAIN game_states
    /\ 2 \notin DOMAIN game_state_secrets
    /\ HandActive
    /\ Latest.hand_number = 1

\* C19: every hand that completes, by showdown or by fold-out and with any
\* pot, gets exactly one hand_results row holding the final pot, the
\* revealed boards and the winners, and no row is written for a hand that
\* has not completed.
C19_HandResultOnce ==
    /\ [](\A j, k \in DOMAIN hand_results :
             hand_results[j].hand_number = hand_results[k].hand_number => j = k)
    /\ [][ /\ (CompletedStep /\ ReadCurrentHand) =>
                /\ hand_results' # <<>>
                /\ LastOf(hand_results').hand_number = Read.hand_number
                /\ LastOf(hand_results').final_pot >= Read.pot_size
                /\ LastOf(hand_results').board_a = Read.board_state.board1
                /\ LastOf(hand_results').board_b = Read.board_state.board2
                /\ Range(LastOf(hand_results').winners) # {}
                /\ Range(LastOf(hand_results').winners) \subseteq NonFoldedAfter
           /\ hand_results' # hand_results =>
                /\ At(1, "action", "insertHandResult")
                /\ Request.outcome.handCompleted
                /\ Len(hand_results') = Len(hand_results) + 1
                /\ SubSeq(hand_results', 1, Len(hand_results)) = hand_results
      ]_vars

\* the second hand, dealt to two seats that lost everything in the first,
\* has been completed with an empty pot: its row is deleted and the only
\* hand_results row is the one of the first hand
C19_Witness ==
    /\ rooms.current_hand_number = 2
    /\ game_states = <<>>
    /\ body = [ok |-> TRUE]
    /\ Len(hand_results) = 1
    /\ hand_results[1].hand_number = 1
    /\ hand_results[1].final_pot = 3 * MinBuyIn

----------------------------------------------------------------------------
(* Idempotent retries (design document 4.2, 6) *)

\* this step belongs to the handling of a request that repeats, with
\* idempotencyKey `key`, the payload the key was first sent with
RetryStep(key) ==
    /\ key \in DOMAIN keyed
    /\ keyed[key].pending
    /\ keyed[key].retry

\* C13: submitting the same action request a second time with the same
\* idempotencyKey applies the action at most once; the second submission
\* returns the original outcome and changes no stack, pot, street or action
\* history again.
C13_IdempotentRetry ==
    /\ [](\A key \in DOMAIN keyed :
             /\ keyed[key].applied <= 1
             /\ keyed[key].last = keyed[key].first)
    /\ [][ \A key \in IdempotencyKeys :
              RetryStep(key) => UNCHANGED <<room_players, game_states, hand_results>>
      ]_vars

\* the request sent with one idempotencyKey has been submitted twice and
\* accepted twice, and the hand state carries its action two times
C13_Witness ==
    /\ Quiet
    /\ "k1" \in DOMAIN keyed
    /\ keyed["k1"].submitted = 2
    /\ keyed["k1"].applied = 2
    /\ HandActive
    /\ Cardinality({i \in DOMAIN Latest.action_history :
                      /\ Latest.action_history[i].seat_number = keyed["k1"].payload[1]
                      /\ Latest.action_history[i].action_type = keyed["k1"].payload[2]}) >= 2

----------------------------------------------------------------------------
(* Atomicity and sequencing of concurrent requests (design document 5, 6) *)

AllIdle == \A r \in Slots : inflight[r].kind = "idle"

\* the chips bought into the room
TableChips ==
    SumOver([i \in DOMAIN room_players |-> room_players[i].total_buy_in],
            DOMAIN room_players)

\* this step is the answer of start-hand after a store call of its failed
\* and the catch has deleted what it deletes
DealFailedStep(r) ==
    /\ At(r, "deal", "rollbackGameState")
    /\ inflight'[r].kind = "idle"
    /\ response'.status = 400

\* C11: a hand never exists half-created.  When start-hand returns after a
\* failed insert of the secret, the hole cards or the stacks, no game_states,
\* game_state_secrets or player_hands row of that hand remains and no stack
\* was debited; and no hand-state row is ever stored, for another request to
\* read, without its secret and its hole cards.
C11_DealAtomicity ==
    /\ [](\A id \in DOMAIN game_states :
             /\ id \in DOMAIN game_state_secrets
             /\ id \in DOMAIN player_hands)
    /\ [][ \A r \in Slots :
              DealFailedStep(r) =>
                 LET id == inflight[r].deal.gameState.id
                 IN /\ id \notin DOMAIN game_states'
                    /\ id \notin DOMAIN game_state_secrets'
                    /\ id \notin DOMAIN player_hands'
                    /\ inflight[r].players \in fetchPlayers(room_players')
      ]_vars

\* while start-hand is between its inserts, an action request has read the
\* hand-state row of the new hand and finds no secret for it
C11_Witness ==
    \E r, q \in Slots :
        /\ inflight[r].kind = "deal"
        /\ inflight[r].pc = "insertSecret"
        /\ At(q, "action", "fetchSecret")
        /\ inflight[q].gameState.id = inflight[r].deal.gameState.id
        /\ inflight[q].gameState.id \in DOMAIN game_states
        /\ inflight[q].gameState.id \notin DOMAIN game_state_secrets

\* this step is the 500 of the actions handler after a failed store call
ActionFailedStep(r) ==
    /\ inflight[r].kind = "action"
    /\ failures' = failures + 1
    /\ inflight'[r].kind = "idle"
    /\ response'.status = 500

\* C12: for one action request, also when a store write fails partway,
\* either every mutation of the request is committed or none is.
C12_ActionAllOrNothing ==
    [][ \A r \in Slots :
           ActionFailedStep(r) =>
              /\ inflight[r].committed = <<>>
              /\ (HandActive' /\ \A q \in Slots \ {r} : inflight[q].kind = "idle") =>
                    /\ ChipsInStacks(room_players') + Latest'.pot_size = TableChips
                    /\ \A i \in DOMAIN room_players' :
                          room_players'[i].has_folded =>
                             room_players'[i].seat_number # Latest'.current_actor_seat
      ]_vars

\* a call has been answered 500 after its stack upsert: the chip has left
\* the caller's stack and the stored pot and turn are those before the call
C12_Witness ==
    /\ AllIdle
    /\ failures = 1
    /\ response = [status |-> 500, error |-> StoreError]
    /\ HandActive
    /\ Latest.action_history = <<>>
    /\ ChipsInStacks(room_players) + Latest.pot_size = TableChips - 1

\* the request in slot r writes what it computed to the store in this step
WriteStep(r) ==
    /\ inflight[r].kind = "action"
    /\ inflight[r].pc \in {"upsertPlayers", "updateGameState"}
    /\ failures' = failures

\* C14: two action requests processed concurrently on the same hand leave
\* the stored hand state and stacks as if processed one after the other:
\* a request writes only while the hand state it read is still the stored
\* one, so two requests are never both applied against the same snapshot.
C14_PerRoomSequencing ==
    [][ \A r \in Slots :
           WriteStep(r) =>
              /\ inflight[r].gameState.id \in DOMAIN game_states
              /\ inflight[r].pc = "upsertPlayers" =>
                    /\ game_states[inflight[r].gameState.id] = inflight[r].gameState
                    /\ inflight[r].players \in fetchPlayers(room_players)
      ]_vars

\* a fold and a call of the same seat were computed on the same hand-state
\* snapshot and both answered 200: the hand is over with one result row,
\* the pot paid out is the one without the call, and the chip of the call
\* is in no stack
C14_Witness ==
    /\ AllIdle
    /\ failures = 0
    /\ received = 2
    /\ ~HandActive
    /\ response.status = 200
    /\ Len(hand_results) = 1
    /\ Len(hand_results[1].action_history) = 1
    /\ hand_results[1].action_history[1].action_type = "fold"
    /\ ChipsInStacks(room_players) = TableChips - 1

\* the stored hand has resolved: nobody is left to act in it
Resolved(gs) == gs.phase \in {"complete", "showdown"}

\* C15: the payout of a completed hand is applied to the stacks exactly
\* once: no sequence of requests, concurrent or failing, leaves a winner
\* credited twice (more chips in the stacks than were bought in, or two
\* result rows for one hand) or not credited (a resolved hand at rest with
\* its pot missing from the stacks).
C15_PayoutOnce ==
    /\ ChipsInStacks(room_players) <= TableChips
    /\ \A j, k \in DOMAIN hand_results :
          hand_results[j].hand_number = hand_results[k].hand_number => j = k
    /\ (AllIdle /\ HandActive /\ Resolved(Latest)) =>
          ChipsInStacks(room_players) = TableChips

\* one hand has two result rows and its pot has been credited twice: the
\* stacks hold more chips than were bought in
C15_Witness ==
    /\ AllIdle
    /\ failures = 0
    /\ Len(hand_results) = 2
    /\ hand_results[1].hand_number = hand_results[2].hand_number
    /\ ChipsInStacks(room_players) = TableChips + hand_results[1].final_pot

\* the request in slot r has read a hand state whose secret row is absent
\* and is about to look the secret up
SecretMissing(r) ==
    /\ At(r, "action", "fetchSecret")
    /\ inflight[r].gameState.id \notin DOMAIN game_state_secrets

\* C20: an action request for a hand whose secret row is absent is answered
\* 500 "Missing game secrets"; the action processor is not invoked and no
\* row is written: no stack, hand state, result or payout is fabricated.
C20_MissingSecretFatal ==
    [][ \A r \in Slots :
           (SecretMissing(r) /\ inflight'[r] # inflight[r]) =>
              /\ response' = [status |-> 500, error |-> "Missing game secrets"]
              /\ body' = [error |-> "Missing game secrets"]
              /\ inflight'[r] = Idle
              /\ inflight[r].outcome = Rejected(NoError)
              /\ UNCHANGED <<rooms, room_players, game_states, game_state_secrets,
                             player_hands, player_actions, hand_results, evaluated>>
      ]_vars

\* a request that read the row of a hand being dealt has been answered 500
\* "Missing game secrets" while the deal is still between its inserts, and
\* no player_actions row was written
C20_Witness ==
    /\ response = [status |-> 500, error |-> "Missing game secrets"]
    /\ \E r \in Slots : inflight[r].kind = "deal" /\ inflight[r].pc = "insertSecret"
    /\ \A r \in Slots : inflight[r].kind # "action"
    /\ received = 1
    /\ player_actions = <<>>
    /\ hand_results = <<>>

----------------------------------------------------------------------------
(* Start-hand requests in the lobby *)

\* the first line of defence of a deal: a refusal for want of players
InsufficientPlayers ==
    response' = [status |-> 400, error |-> "Need at least two players to start"]

\* C21: a start-hand request for a room with fewer than two seated players is
\* answered 400 (need at least two players) and changes no table: no hand
\* state, secret or hole-card row appears, no stack is debited, and the room
\* keeps its button seat and hand number
C21_InsufficientPlayers ==
    [][ /\ (Quiet /\ inflight'[1].kind = "deal") => TablesUnchanged
        /\ (At(1, "deal", "fetchPlayers") /\ Cardinality(DOMAIN room_players) < 2)
             => Answers("deal")
        /\ (Answers("deal") /\ Cardinality(DOMAIN room_players) < 2)
             => /\ InsufficientPlayers
                /\ TablesUnchanged
      ]_vars

\* a lone player asked for a hand and was refused
C21_Witness ==
    /\ Quiet
    /\ Cardinality(DOMAIN room_players) = 1
    /\ response = [status |-> 400, error |-> "Need at least two players to start"]
    /\ game_states = <<>> /\ game_state_secrets = <<>> /\ player_hands = <<>>
    /\ rooms = NewRoom
    /\ \A i \in DOMAIN room_players :
          room_players[i].chip_stack = room_players[i].total_buy_in

----------------------------------------------------------------------------
(* Stacks *)

\* the write of this step is the debit of a wager of the row's seat: the
\* upsert of a deal, or the upsert of an action request of that seat
WagerWrite(i) ==
    \E r \in Slots :
       \/ At(r, "deal", "upsertDealtPlayers")
       \/ /\ At(r, "action", "upsertPlayers")
          /\ inflight[r].seat = room_players[i].seat_number

\* the write of this step is the credit of a payout
PayoutWrite == \E r \in Slots : At(r, "action", "creditWinners")

\* C22: no stack is ever negative; a stack goes down only by the seat's own
\* wager (a forced bet of the deal or the accepted wager of the seat, never
\* more than the stack held) and goes up only when a hand is paid out
C22_StackBounds ==
    /\ [](\A i \in DOMAIN room_players : room_players[i].chip_stack >= 0)
    /\ [][\A i \in DOMAIN room_players \cap DOMAIN room_players' :
            /\ room_players'[i].chip_stack < room_players[i].chip_stack
                  => WagerWrite(i)
            /\ room_players'[i].chip_stack > room_players[i].chip_stack
                  => PayoutWrite]_vars

\* a call was computed on the stacks read before the deal had debited the
\* blinds, and the deal's upsert then overwrote the caller's row: the caller's
\* stack went up without a payout, and the stacks and the pot together hold
\* more chips than were bought in
C22_Witness ==
    /\ AllIdle
    /\ failures = 0
    /\ HandActive
    /\ hand_results = <<>>
    /\ ChipsInStacks(room_players) + Latest.pot_size > TableChips

----------------------------------------------------------------------------
(* The deal *)

\* the id of the hand the start-hand request has stored
DealtId == Request.deal.gameState.id

\* the rows the request has read, by id
ReadPlayers ==
    [i \in {Request.players[k].id : k \in DOMAIN Request.players} |->
        CHOOSE p \in Range(Request.players) : p.id = i]

\* dealing again from the room and players the request read with the seed
\* the secret holds gives the rows the request stored, the hand state under
\* the id the store gave it
Reproducible ==
    LET id == DealtId
        secret == game_state_secrets'[id]
        again == dealHand(Request.room, Request.players, secret.deck_seed)
    IN /\ player_hands'[id] = again.playerHands
       /\ secret.full_board1 = again.fullBoard1
       /\ secret.full_board2 = again.fullBoard2
       /\ game_states'[id] = [again.gameState EXCEPT !.id = id]

Debit(i) == ReadPlayers[i].chip_stack - room_players'[i].chip_stack

\* C24: in the hand state of a deal the button is the next occupied seat after
\* the previous button, the bet-to-call is the big blind, and the small and
\* the big blind seat are each debited once, by the blind or by the whole
\* stack when it is shorter; the debit is the seat's wager and its part of
\* the pot, and every other stack is unchanged
C24_ForcedBets ==
    [][DealStep =>
         LET gs == game_states'[DealtId]
             seats == Seated(ReadPlayers)
             button == NextSeatIn(seats, Request.room.button_seat)
             sbSeat == NextSeatIn(seats, button)
             bbSeat == NextSeatIn(seats, sbSeat)
         IN /\ gs.button_seat = button
            /\ rooms'.button_seat = button
            /\ gs.current_bet = Request.room.big_blind
            /\ DOMAIN room_players' = DOMAIN ReadPlayers
            /\ \A i \in DOMAIN ReadPlayers :
                  LET p == ReadPlayers[i] IN
                  /\ Debit(i) = IF p.seat_number = bbSeat
                                THEN Min({Request.room.big_blind, p.chip_stack})
                                ELSE IF p.seat_number = sbSeat
                                THEN Min({Request.room.small_blind, p.chip_stack})
                                ELSE 0
                  /\ room_players'[i].current_bet = Debit(i)
                  /\ gs.contributions[p.seat_number] = Debit(i)
            /\ gs.pot_size = SumOver([i \in DOMAIN ReadPlayers |-> Debit(i)],
                                     DOMAIN ReadPlayers)]_vars

\* the second hand, dealt after a third player joined: the button has moved
\* from seat 0 to seat 1, the small blind is posted in full, and the big blind
\* seat, left with one chip after the first hand, posts that chip and is
\* all-in
C24_Witness ==
    /\ Quiet
    /\ rooms.current_hand_number = 2
    /\ Seated(room_players) = {0, 1, 2}
    /\ game_states[1].button_seat = 0
    /\ game_states[2].button_seat = 1
    /\ game_states[2].current_bet = 2
    /\ game_states[2].contributions = (0 :> 1 @@ 1 :> 0 @@ 2 :> 1)
    /\ game_states[2].pot_size = 2
    /\ \E i \in DOMAIN room_players :
          /\ room_players[i].seat_number = 0
          /\ room_players[i].chip_stack = 0
          /\ room_players[i].is_all_in

----------------------------------------------------------------------------
(* Odd chips *)

\* seats passed going clockwise from the button before reaching seat s
StepsFromButton(button, s) ==
    IF s > button THEN s - button - 1
    ELSE s - button - 1 + Cardinality(RequestSeats) + Max(RequestSeats)

\* what seat s receives of one board's part when odd chips go one each to the
\* tied winners clockwise, starting with the seat next after the button
ClockwiseShare(s, winners, part, button) ==
    IF s \notin Range(winners) THEN 0
    ELSE LET n == Len(winners)
             ahead == {w \in Range(winners) :
                          StepsFromButton(button, w) < StepsFromButton(button, s)}
         IN (part \div n) + (IF Cardinality(ahead) < part % n THEN 1 ELSE 0)

\* C25: a board's part of the pot that its tied winners cannot share evenly is
\* paid as the floor share to each, the remaining chips going one each to the
\* tied winners in clockwise seat order from the seat next after the button
C25_OddChipClockwise ==
    [][ (CompletingStep /\ evaluated' # <<>>
           /\ evaluated'[1].board1Winners # <<>>
           /\ evaluated'[1].board2Winners # <<>>) =>
          LET b1 == evaluated'[1].board1Winners
              b2 == evaluated'[1].board2Winners
              P == LastOf(hand_results').final_pot
          IN \E part1 \in {P \div 2, P - (P \div 2)} :
                \A s \in DOMAIN ReadRows :
                   Credit(s) = ClockwiseShare(s, b1, part1, Read.button_seat)
                                 + ClockwiseShare(s, b2, P - part1, Read.button_seat)
      ]_vars

\* heads-up, button on seat 0, both seats all-in for 3 and tied on both
\* boards: each board's 3 chips are split 2 and 1, and the odd chip of both
\* boards went to seat 0, the button, not to seat 1 next after it
C25_Witness ==
    /\ Quiet
    /\ rooms.button_seat = 0
    /\ Seated(room_players) = {0, 1}
    /\ evaluated # <<>>
    /\ evaluated[1].board1Winners = <<0, 1>>
    /\ evaluated[1].board2Winners = <<0, 1>>
    /\ hand_results # <<>>
    /\ LastOf(hand_results).final_pot = 6
    /\ RowsBySeat[0].total_buy_in = 3 /\ RowsBySeat[1].total_buy_in = 3
    /\ RowsBySeat[0].chip_stack = 4
    /\ RowsBySeat[1].chip_stack = 2

----------------------------------------------------------------------------
(* Calls *)

\* what a call of the seat in turn comes to: refused as illegal when the seat
\* faces no bet; otherwise it moves the gap, or the whole stack when the stack
\* is shorter, from the stack to the seat's wager and the pot, and a stack
\* that does not cover the gap is emptied and the seat marked all-in
CallOutcome ==
    (Quiet /\ OnCurrentHand /\ Latest.current_actor_seat \in DOMAIN RowsBySeat) =>
       LET seat == Latest.current_actor_seat
           p == RowsBySeat[seat]
           g == Latest.current_bet - p.current_bet
           moved == Min({g, p.chip_stack})
           outcome == RequestOutcome(seat, "call", NoAmount)
       IN IF g <= 0 THEN outcome = Rejected("IllegalAction")
          ELSE /\ outcome.error = NoError
               /\ outcome.updatedPlayers[1].id = p.id
               /\ outcome.updatedPlayers[1].chip_stack = p.chip_stack - moved
               /\ outcome.updatedPlayers[1].current_bet = p.current_bet + moved
               /\ outcome.updatedGameState.pot_size = Latest.pot_size + moved
               /\ outcome.updatedGameState.contributions[seat]
                     = Latest.contributions[seat] + moved
               /\ LastOf(outcome.updatedGameState.action_history).amount = moved
               /\ p.chip_stack < g =>
                     /\ outcome.updatedPlayers[1].chip_stack = 0
                     /\ outcome.updatedPlayers[1].is_all_in

\* this step accepted an action and wrote its entry to the hand's history
RecordedStep ==
    ContinuingStep \/ (CompletingStep /\ PaysOut(Request.outcome))

\* C26: an accepted call of a seat facing a gap g > 0 moves exactly
\* min(g, stack) chips from the stack to the seat's wager and the pot; a stack
\* that does not cover the gap goes to 0 with the seat marked all-in; a call
\* with g = 0 is rejected as IllegalAction and answered 400
C26_CallSizing ==
    /\ []CallOutcome
    /\ [][ /\ (RecordedStep /\ StepEntry.action_type = "call") =>
                LET seat == StepEntry.seat_number
                    p == ReadRows[seat]
                    g == Read.current_bet - p.current_bet
                IN /\ seat = Read.current_actor_seat
                   /\ g > 0
                   /\ StepEntry.amount = Min({g, p.chip_stack})
                   /\ ContinuingStep =>
                         /\ RowAfter(seat).chip_stack = p.chip_stack - StepEntry.amount
                         /\ Latest'.pot_size = Read.pot_size + StepEntry.amount
                         /\ RowAfter(seat).is_all_in = (p.chip_stack <= g)
           /\ (RejectedStep
                 /\ player_actions'[1].error_message = "IllegalAction")
                => /\ response' = [status |-> 400, error |-> "IllegalAction"]
                   /\ TablesUnchanged
       ]_vars

\* heads-up, seat 1 went all-in for 4 more and seat 0, with one chip behind
\* its big blind, called: the call moved that one chip, not the gap of 3, and
\* seat 0 is all-in
C26_Witness ==
    /\ Quiet
    /\ hand_results # <<>>
    /\ Seated(room_players) = {0, 1}
    /\ LastOf(hand_results).action_history =
          <<[seat_number |-> 1, action_type |-> "all_in", amount |-> 4,
             phase |-> "preflop"],
            [seat_number |-> 0, action_type |-> "call", amount |-> 1,
             phase |-> "preflop"]>>
    /\ LastOf(hand_results).final_pot = 8
    /\ RowsBySeat[0].is_all_in
    /\ RowsBySeat[0].total_buy_in = 3

----------------------------------------------------------------------------
(* Seats *)

\* the join request in slot r is answered in this step
JoinAnswered(r) == inflight[r].kind = "join" /\ inflight'[r].kind = "idle"

\* C27: no two player rows of the room have the same seat number, and a join
\* for a seat that is occupied is answered 400 "Seat already taken" and adds
\* no row, also when two joins for the same free seat are handled at the same
\* time
C27_SeatUniqueness ==
    /\ [](\A i, j \in DOMAIN room_players :
             room_players[i].seat_number = room_players[j].seat_number => i = j)
    /\ [][\A r \in Slots :
            (JoinAnswered(r) /\ RowsAtSeat(inflight[r].seat) # {}) =>
               /\ response' = [status |-> 400, error |-> "Seat already taken"]
               /\ room_players' = room_players]_vars

\* two joins for seat 0 were both answered 201: two rows hold seat 0
C27_Witness ==
    /\ AllIdle
    /\ received = 2
    /\ response.status = 201
    /\ Cardinality(DOMAIN room_players) = 2
    /\ \A i \in DOMAIN room_players : room_players[i].seat_number = 0

----------------------------------------------------------------------------
(* Visible cards *)

\* entries of a function result for one seat
EntriesFor(rows, seat) == {n \in DOMAIN rows : rows[n].seat_number = seat}

\* C28: in an Indian-poker room, for every game state and every requesting
\* seat s, the result of the visible-cards function has exactly one entry, the
\* first hole card, for every seat other than s that holds a hand in the game
\* state, and no entry for seat s
C28_VisibleCardsExcludeRequester ==
    rooms.game_mode = "indian_poker" =>
       \A id \in GameStateIds, s \in RequestSeats :
          \A result \in get_indian_poker_visible_cards(id, s) :
             LET rows == result.rows
                 hands == IF id \in DOMAIN player_hands
                          THEN player_hands[id] ELSE <<>>
             IN /\ ~result.raised
                /\ EntriesFor(rows, s) = {}
                /\ \A n \in DOMAIN rows : \E k \in DOMAIN hands :
                      hands[k].seat_number = rows[n].seat_number
                /\ \A k \in DOMAIN hands :
                      hands[k].seat_number # s =>
                         /\ Cardinality(EntriesFor(rows, hands[k].seat_number)) = 1
                         /\ \A n \in EntriesFor(rows, hands[k].seat_number) :
                               rows[n].visible_card = hands[k].cards[1]

\* the function was called for seat 1 of the first hand of a full table: the
\* result holds the first card of seat 0 and of seat 2
C28_Witness ==
    /\ rooms.game_mode = "indian_poker"
    /\ 1 \in DOMAIN player_hands
    /\ Len(player_hands[1]) = 3
    /\ response.status = 200
    /\ body = [rows |-> <<[seat_number |-> 0,
                           visible_card |-> player_hands[1][1].cards[1]],
                          [seat_number |-> 2,
                           visible_card |-> player_hands[1][3].cards[1]]>>]

\* C29: a player seated at seat s who holds a hand in a game state obtains the
\* card of seat s by no request open to them: not from the route, whatever
\* seat parameter they send, and not from the visible-cards function, whatever
\* requesting seat they name
C29_OwnCardNeverVisible ==
    \A i \in DOMAIN room_players, id \in GameStateIds :
       LET s == room_players[i].seat_number IN
       HoldsHand(id, s) =>
          /\ \A seat \in SeatParams :
                \A answer \in IndianPokerCards(i, seat, id) :
                   answer.status = 200 => s \notin DOMAIN answer.body.visibleCards
          /\ \A t \in RequestSeats :
                \A result \in get_indian_poker_visible_cards(id, t) :
                   EntriesFor(result.rows, s) = {}

\* heads-up in an Indian-poker room: the function was called for the first
\* hand with seat 0 as requesting seat, as the player at seat 1 is free to do,
\* and the result is the card of seat 1
C29_Witness ==
    /\ rooms.game_mode = "indian_poker"
    /\ 1 \in DOMAIN player_hands
    /\ Len(player_hands[1]) = 2
    /\ PlayerId(1) \in DOMAIN room_players
    /\ ~IsSpectating(room_players[PlayerId(1)])
    /\ response.status = 200
    /\ body = [rows |-> <<[seat_number |-> 1,
                           visible_card |-> player_hands[1][2].cards[1]]>>]

----------------------------------------------------------------------------
(* Room configuration (design document 2) *)

\* the sizes of a stored room are in order
RoomInOrder(room) ==
    /\ room.big_blind > room.small_blind
    /\ room.max_buy_in >= room.min_buy_in

\* a create-room payload that breaks one of the two orders
OutOfOrder(payload) ==
    \/ ~(payload.bigBlind > payload.smallBlind)
    \/ ~(payload.maxBuyIn >= payload.minBuyIn)

\* the messages with which POST /rooms refuses
CreateRoomErrors ==
    {ZodError, "bigBlind must be greater than smallBlind",
     "maxBuyIn must be >= minBuyIn"}

\* a step that stores the room answers 201 with the row it stored
RoomStored ==
    (rooms = NoRoom /\ rooms' # NoRoom)
        => /\ response'.status = 201
           /\ body' = [room |-> rooms']
           /\ RoomInOrder(rooms')

\* a step that answers with one of the refusals of POST /rooms answers 400
\* and leaves the rooms table as it was
RoomRefused ==
    (response' # response /\ response'.error \in CreateRoomErrors)
        => /\ response'.status = 400
           /\ rooms' = rooms

\* every player row a step adds carries the request's buy-in as stack and as
\* total buy-in, within the room's range, and is the row the request holds to
\* return; the step that answers the request returns that row with 201
PlayerJoined ==
    /\ \A i \in DOMAIN room_players' \ DOMAIN room_players :
        LET player == room_players'[i]
        IN /\ rooms # NoRoom
           /\ player.chip_stack = player.total_buy_in
           /\ rooms.min_buy_in <= player.total_buy_in
           /\ player.total_buy_in <= rooms.max_buy_in
           /\ \E r \in Slots :
                /\ At(r, "join", "insertPlayer")
                /\ player.total_buy_in = inflight[r].buyIn
                /\ inflight'[r].kind = "join"
                /\ inflight'[r].pc = "updateLastActivity"
                /\ inflight'[r].player = player
    /\ \A r \in Slots :
        (At(r, "join", "updateLastActivity") /\ inflight'[r] = Idle)
            => /\ response'.status = 201
               /\ body' = [player |-> inflight[r].player]

\* C31: every stored room has bigBlind > smallBlind and maxBuyIn >= minBuyIn;
\* a create-room request that breaks either order is refused with 400 and
\* stores no room; every player row created by join has chip_stack =
\* total_buy_in = buyIn with minBuyIn <= buyIn <= maxBuyIn.
C31_RoomConfiguration ==
    /\ [](rooms # NoRoom => RoomInOrder(rooms))
    /\ [](\A payload \in RoomPayloads :
            OutOfOrder(payload) => CreateRoomRefusal(payload) # NoError)
    /\ [][RoomStored /\ RoomRefused /\ PlayerJoined]_vars

\* a room with equal buy-in limits has been stored and a player has joined it
\* with exactly that buy-in
C31_Witness ==
    /\ Quiet
    /\ rooms # NoRoom
    /\ rooms.min_buy_in = rooms.max_buy_in
    /\ response.status = 201
    /\ "player" \in DOMAIN body
    /\ body.player.chip_stack = rooms.max_buy_in
    /\ PlayerId(2) \in DOMAIN room_players

----------------------------------------------------------------------------
(* Paused rooms *)

\* the room exists and is paused or inactive
Blocked == IF rooms = NoRoom THEN FALSE ELSE rooms.is_paused \/ ~rooms.is_active

\* the step dealt nothing: no hand state, secret or hole cards appear or
\* change, every player row keeps its columns, and the room keeps its button
\* and hand number
NothingDealt ==
    /\ UNCHANGED <<game_states, game_state_secrets, player_hands>>
    /\ \A i \in DOMAIN room_players :
          i \in DOMAIN room_players' /\ room_players'[i] = room_players[i]
    /\ rooms'.button_seat = rooms.button_seat
    /\ rooms'.current_hand_number = rooms.current_hand_number

\* the step handles a request to the engine's start-hand route
EngineStartHand == ReceiveStartHand(1)

\* the step handles a deal-hand request of the owner that reaches the
\* route's look at the room: its body is read and accepted and the service
\* client is created
OwnerDealHand ==
    /\ rooms.owner_auth_user_id # NoUser
    /\ DealHandRoute(1, rooms.owner_auth_user_id, "valid", TRUE)

\* the step handles such a request of somebody who is not the owner
StrangerDealHand ==
    \E user \in Callers :
        user # rooms.owner_auth_user_id /\ DealHandRoute(1, user, "valid", TRUE)

\* the step handles a deal-hand request that does not get that far: the
\* body is not read or not accepted, or the service client is not created
BrokenDealHand ==
    \E user \in Callers, requestBody \in DealBodies, serviceKey \in BOOLEAN :
        /\ requestBody # "valid" \/ ~serviceKey
        /\ DealHandRoute(1, user, requestBody, serviceKey)

\* C32: while the room's pause flag is set, or the room is inactive, no step
\* deals a hand: no hand state, secret or hole cards are created and no stack
\* is debited.  A start-hand request to the engine is answered 400, a
\* deal-hand request of the owner whose body is accepted is answered 400, and
\* one of anybody else is refused (400, 401, 403).  A deal-hand request whose
\* body is not read or not accepted, or for which no service client can be
\* made, is refused as well (400, 401, 500).  So a hand is dealt only by
\* steps taken in an unpaused, active room.
C32_PausedRoomsDealNoHand ==
    [][Blocked =>
          /\ NothingDealt
          /\ EngineStartHand =>
                /\ inflight'[1] = Idle
                /\ response' = [status |-> 400, error |-> "Room not active"]
          /\ OwnerDealHand =>
                /\ inflight'[1] = Idle
                /\ response'.status = 400
          /\ StrangerDealHand =>
                /\ inflight'[1] = Idle
                /\ response'.status \in {400, 401, 403}
          /\ BrokenDealHand =>
                /\ inflight'[1] = Idle
                /\ response'.status \in {400, 401, 500}]_vars

\* the owner's deal-hand request found the room closed and not paused,
\* passed the checks of the route without a 400, and the hand state, secret
\* and hole cards of a hand have been inserted for it
C32_Witness ==
    /\ inflight[1].kind = "deal"
    /\ inflight[1].web
    /\ ~inflight[1].room.is_active /\ ~inflight[1].room.is_paused
    /\ game_states # <<>> /\ game_state_secrets # <<>> /\ player_hands # <<>>

----------------------------------------------------------------------------
(* One hand at a time (design document 3) *)

\* C33: in every reachable state the room has at most one hand-state row,
\* with exactly one secret for it, and no two hand-state rows carry the same
\* hand number; a start-hand request that arrives while a hand is active does
\* not add a second row
C33_OneActiveHand ==
    /\ Cardinality(DOMAIN game_states) <= 1
    /\ Quiet => DOMAIN game_state_secrets = DOMAIN game_states
    /\ \A i, j \in DOMAIN game_states :
          game_states[i].hand_number = game_states[j].hand_number => i = j

\* a second start-hand request was answered 201 while the first hand was
\* still in its first betting round: two hand states, two secrets
C33_Witness ==
    /\ Quiet
    /\ Cardinality(DOMAIN game_states) = 2
    /\ Cardinality(DOMAIN game_state_secrets) = 2
    /\ response.status = 201
    /\ \A i \in DOMAIN game_states : game_states[i].phase = "preflop"

----------------------------------------------------------------------------
(* Payout on the persisted stack *)

\* the snapshot of a player the handler persists: the last one in the list
PersistedSnapshot(updatedPlayers, id) ==
    updatedPlayers[Max({j \in DOMAIN updatedPlayers : updatedPlayers[j].id = id})]

\* the list holds more than one snapshot of the player
SeveralSnapshots(updatedPlayers, id) ==
    Cardinality({j \in DOMAIN updatedPlayers : updatedPlayers[j].id = id}) >= 2

\* the players as the handler read them, each under its last snapshot
UnderPersisted(players, updatedPlayers) ==
    [k \in DOMAIN players |->
        IF \E j \in DOMAIN updatedPlayers : updatedPlayers[j].id = players[k].id
        THEN Merge(players[k], PersistedSnapshot(updatedPlayers, players[k].id))
        ELSE players[k]]

\* this step upserts the player rows of an action that completes the hand
CompletingUpsertStep ==
    /\ At(1, "action", "upsertPlayers")
    /\ Request.outcome.handCompleted
    /\ inflight'[1].kind = "action"
    /\ inflight'[1].pc = "updateGameState"

\* every player in the list is stored under its last snapshot
PersistsLastSnapshot ==
    LET updatedPlayers == Request.outcome.updatedPlayers
    IN \A j \in DOMAIN updatedPlayers :
          LET id == updatedPlayers[j].id
          IN /\ id \in DOMAIN room_players'
             /\ room_players'[id] =
                   Merge(room_players[id], PersistedSnapshot(updatedPlayers, id))

\* this step credits the winners of the hand the request has completed
CreditStep == At(1, "action", "creditWinners")

\* the stored stack of every credited player is the stack of its persisted
\* snapshot plus its payout, and the hands shown are those of the players
\* whose persisted snapshot is not folded
PaidOnPersisted ==
    LET outcome == Request.outcome
        players == Request.players
        payouts == endOfHandPayout(Request.winners.board1Winners,
                                   Request.winners.board2Winners,
                                   outcome.potAwarded)
        hands == player_hands[Read.id]
    IN /\ \A k \in DOMAIN payouts :
            \A i \in DOMAIN players :
               (players[i].seat_number = payouts[k].seat
                  /\ SeveralSnapshots(outcome.updatedPlayers, players[i].id))
                  => room_players'[players[i].id].chip_stack =
                        PersistedSnapshot(outcome.updatedPlayers,
                                          players[i].id).chip_stack
                           + payouts[k].amount
       /\ ActiveHands(hands, MergedPlayers(players, outcome.updatedPlayers))
             = ActiveHands(hands, UnderPersisted(players, outcome.updatedPlayers))

\* C34: when the updatedPlayers list of the completing action holds several
\* snapshots of one player, the row persisted is the last snapshot, the stack
\* stored for a winner after the payout is the chip_stack of that persisted
\* snapshot plus the payout, and the folded flag that selects the showdown
\* hands is that of the same snapshot
C34_PayoutOnPersistedStack ==
    [][ /\ CompletingUpsertStep => PersistsLastSnapshot
        /\ CreditStep => PaidOnPersisted ]_vars

\* the winners of a showdown are about to be credited; the list of the
\* action that closed the hand holds two different snapshots of a player who
\* is paid from the pot
C34_Witness ==
    /\ At(1, "action", "creditWinners")
    /\ LET updatedPlayers == Request.outcome.updatedPlayers
           payouts == endOfHandPayout(Request.winners.board1Winners,
                                      Request.winners.board2Winners,
                                      Request.outcome.potAwarded)
       IN \E k \in DOMAIN payouts, i \in DOMAIN Request.players :
             LET id == Request.players[i].id
                 snapshots == {j \in DOMAIN updatedPlayers : updatedPlayers[j].id = id}
             IN /\ Request.players[i].seat_number = payouts[k].seat
                /\ payouts[k].amount > 0
                /\ Cardinality(snapshots) >= 2
                /\ updatedPlayers[Min(snapshots)] # updatedPlayers[Max(snapshots)]

----------------------------------------------------------------------------
(* No stuck hand (design document 4.2) *)

\* the outcome of a fold requested from a seat in the current state
FoldOutcome(seat) == RequestOutcome(seat, "fold", NoAmount)

\* the hand in progress has a seat in turn that has neither folded nor gone
\* all-in, and a fold from that seat is accepted
SeatInTurnCanAct ==
    /\ Latest.current_actor_seat \in Eligible(RowsBySeat)
    /\ ~IsRejected(FoldOutcome(Latest.current_actor_seat))

\* no seat can act: whichever seat asks, even a fold is refused
NoSeatCanAct == \A seat \in SeatNumbers : IsRejected(FoldOutcome(seat))

\* whoever else asks, the request is refused
OnlySeatInTurnActs ==
    \A seat \in SeatNumbers \ {Latest.current_actor_seat} :
       IsRejected(FoldOutcome(seat))

\* streets after this one
StreetsLeft(phase) ==
    CASE phase = "preflop" -> 3
      [] phase = "flop" -> 2
      [] phase = "turn" -> 1
      [] OTHER -> 0

\* what is left of a hand: the streets to come and the chips behind the seats
\* that can act, and within these the seats that still have to act
HandLeft(gameState, bySeat) ==
    (StreetsLeft(gameState.phase)
        + SumOver([s \in DOMAIN bySeat |-> bySeat[s].chip_stack], Eligible(bySeat)))
          * (Cardinality(DOMAIN bySeat) + 1)
       + Cardinality(gameState.seats_to_act)

\* every action that would be accepted now completes the hand, or leaves less
\* of it and a seat in turn that can act
EveryActionProgresses ==
    \A seat \in SeatNumbers, actionType \in ActionTypes :
       \A amount \in Amounts(actionType) :
          LET outcome == RequestOutcome(seat, actionType, amount)
              after == Merge(Latest, outcome.updatedGameState)
              rows == BySeat(UnderPersisted(PlayersBySeatNumber,
                                            outcome.updatedPlayers))
          IN (~IsRejected(outcome) /\ ~outcome.handCompleted) =>
                /\ HandLeft(after, rows) < HandLeft(Latest, RowsBySeat)
                /\ after.current_actor_seat \in Eligible(rows)

\* C35: in every reachable state of an active hand there is exactly one
\* current actor, it is a non-folded, non-all-in seat, and fold is accepted
\* from it; no state of an active hand is one in which no seat can act, and
\* every accepted action completes the hand or leaves less of it (fewer
\* streets, fewer chips behind, fewer seats to act), so every hand completes
\* after finitely many accepted actions
C35_NoStuckHand ==
    (Quiet /\ OnCurrentHand)
        => /\ SeatInTurnCanAct
           /\ OnlySeatInTurnActs
           /\ ~NoSeatCanAct
           /\ EveryActionProgresses

\* two seats went all-in in the first hand and, before the third answered,
\* a second hand was dealt: the chips are in the pot of the first hand, every
\* seat of the second is all-in from the deal, no seat is in turn, and a fold
\* is refused whoever sends it, so neither hand goes on
C35_Witness ==
    /\ Quiet
    /\ hand_results = <<>>
    /\ Cardinality(DOMAIN game_states) = 2 /\ OnCurrentHand
    /\ Latest.hand_number = 2
    /\ Latest.phase = "preflop"
    /\ Latest.current_actor_seat = -1
    /\ Eligible(RowsBySeat) = {}
    /\ NoSeatCanAct

----------------------------------------------------------------------------
(* The visible-cards hook shows current data *)

\* the cards the server returns for the hook's present parameters
CurrentCards(h) == VisibleCardsOf(h.roomId, h.gameStateId, h.credential)

FetchInFlight == \E r \in Slots : inflight[r].kind = "fetch"

\* a step that puts cards into visibleCards puts there the cards of a fetch
\* for the parameters the hook has now
ShowsFetchedForCurrent ==
    (hook # Unmounted /\ hook'.visibleCards # NoCards
        /\ hook'.visibleCards # hook.visibleCards)
        => hook'.visibleCards = CurrentCards(hook')

\* the effect of the latest render has run
EffectRan == hook # Unmounted /\ ~hook.effectPending

\* with a parameter missing nothing is shown and nothing is loading
ClearedWhenMissing ==
    (EffectRan /\ MissingParam(hook))
        => hook.visibleCards = NoCards /\ ~hook.loading

\* with all parameters present and every fetch answered the hook is not
\* loading and exposes cards or an error
SettledWhenIdle ==
    (EffectRan /\ ~MissingParam(hook) /\ ~FetchInFlight)
        => /\ ~hook.loading
           /\ hook.visibleCards # NoCards \/ hook.error # NoError

\* C36: after the hook's parameters change, the answer of a fetch started for
\* the earlier parameters never becomes the exposed visibleCards; while a
\* required parameter is missing visibleCards is null and loading is false;
\* and once no fetch is in flight loading is false with visibleCards or error
\* set
C36_HookShowsCurrentData ==
    /\ [](ClearedWhenMissing /\ SettledWhenIdle)
    /\ [][ShowsFetchedForCurrent]_vars

\* the table view moved on to game state 2 while the fetch for game state 1
\* was unanswered; both answers have arrived, the one for game state 1 last,
\* and the hook exposes the cards of game state 1
C36_Witness ==
    /\ EffectRan
    /\ ~MissingParam(hook)
    /\ hook.gameStateId = 2
    /\ ~FetchInFlight /\ ~hook.loading
    /\ hook.visibleCards = VisibleCardsOf(hook.roomId, 1, hook.credential)

====
